---- MODULE Spec2Model ----
(***************************************************************************)
(* Resumable review-fix orchestration: the per-step driver of              *)
(* scripts/flows/implement.py, the stages and human checkpoints of         *)
(* scripts/flows/plan.py and the reusable loop of                          *)
(* scripts/flows/lib/review_loop.py.                                       *)
(*                                                                         *)
(* A behaviour follows one program: the implement driver over a sequence   *)
(* of process runs on one flow (SpecImpl), one call of run_review_loop     *)
(* (SpecLoop), the plan script over a sequence of runs (SpecPlan), either  *)
(* driver (SpecDrivers), or the post-tasks of a flow that has stopped:     *)
(* lib/proof_runner.py and scripts/flows/run_learnings.py, invoked by hand *)
(* or by the runner of the two (SpecPost).  The functions of the library   *)
(* are applied on their own to inputs drawn from bounded sets:             *)
(* _is_standalone_marker (SpecMarker), check_step_review_approved          *)
(* (SpecRecords), truncate_validation_output (SpecShape), the feedback     *)
(* markers of a draft (SpecFeedback), validate_semantic (SpecEvidence),    *)
(* InfoTracker (SpecTracker), the parsers of agent reports beside the      *)
(* review loop (SpecNotFound) and the block parser alone (SpecBlock).  One *)
(* call of run_human_approval_checkpoint, with the human's answers and     *)
(* edits of the draft, is SpecCheckpoint.  The status file of the flow     *)
(* library is kept as what its lookups read: per (step, role) the number   *)
(* of agent records and whether one of them ended Completed.               *)
(***************************************************************************)
EXTENDS Integers, Sequences, FiniteSets, TLC

\* ------------------------------------------------------------ bounds
MaxSteps == 2          \* steps of the spec plan handed to implement.py
MaxRuns == 2           \* process invocations on one flow
MaxAttempts == 3       \* largest config.max_attempts tried
MaxValFix == 3         \* largest max_validation_fix_attempts tried
MaxFaults == 1         \* non-Completed exits, failing validations and interrupts of one flow
MaxRejects == 4        \* reviewer reports of one flow without the approval marker
MaxLen == 5            \* longest text handed to a text function
MaxMarker == 2         \* longest marker handed to _is_standalone_marker
MaxPostRuns == 2       \* invocations of one post-task
MaxRecords == 3        \* AgentRecords of one status file
MaxLines == 5          \* lines of a validation output
MaxShown == 1          \* largest max_failures_shown tried
MaxChars == 4          \* the tight max_chars tried
MaxPieces == 5         \* pieces of a draft handed to the feedback functions
MaxResolutions == 1    \* resolutions handed to resolve_feedback_markers
MaxDemos == 2          \* demos of an evidence report
MaxCommands == 1       \* commands of a demo
MaxInfo == 2           \* longest info and base input handed to an InfoTracker
MaxCalls == 3          \* add_to_input calls on one InfoTracker
MaxReportLines == 4    \* lines of an agent report handed to a parser
MaxDraftPieces == 3    \* pieces of a draft handed to parse_inline_feedback
MaxMarkers == 2        \* markers of a draft at a human checkpoint
MaxPairs == 1          \* FEEDBACK/RESOLUTION pairs of a fixer's report
MaxFeedback == 2       \* answers other than "y" at one human checkpoint
MaxBlockLines == 5     \* lines of a report handed to the block parser alone

\* ------------------------------------------------ program constants
ImplFixAttempts == 3   \* implement.py: for attempt in range(3)
DefaultMaxChars == 12000  \* truncate_validation_output: max_chars

\* ------------------------------------------------------------ values
None == <<>>
Completed == "Completed"
ExitReasons == {"Completed", "Failed"}

\* Report texts, one character per element: "q" stands for a quote character
\* (backtick, double quote, single quote) and "x" for any other text.
approval_marker == <<"O", "K">>
Issues == <<"x">>
QuotedOnly == <<"q", "O", "K", "q">>
Standalone == <<"O", "K">>
QuotedThenStandalone == <<"q", "O", "K", "q", "x", "O", "K">>
Texts == {Issues, QuotedOnly, Standalone, QuotedThenStandalone}
NoQuoteChars == {}
QuoteChars == {"q"}

\* A report_file value: given = the path is not None, exists = the file is there.
NoReport == [given |-> FALSE, exists |-> FALSE, content |-> <<>>]
MissingReport == [given |-> TRUE, exists |-> FALSE, content |-> <<>>]
ReportOf(t) == [given |-> TRUE, exists |-> TRUE, content |-> t]
ReadableReports == {ReportOf(t) : t \in Texts}
\* implement.py reads a given report without a guard; the agent substrate is
\* taken to hand back a path only to a file it wrote.
ImplReports == {NoReport} \cup ReadableReports
LoopReports == {NoReport, MissingReport} \cup ReadableReports

VARIABLES
    flow,      \* the persisted FlowStatus: agents, completedSteps, status
    planDoc,   \* step numbers marked completed in the plan document
    impl,      \* implement.py main: its locals and position
    hist,      \* history of the current run (what was invoked, skipped, validated)
    loop,      \* run_review_loop: its locals, position and call log
    plan,      \* plan.py: its locals and position
    calc,      \* one application of a pure function: its inputs and result
    git,       \* the commits made through git_utils.commit_and_push_changes
    post       \* the post-tasks of a flow (proof, learnings) and their runner

vars == <<flow, planDoc, impl, hist, loop, plan, calc, git, post>>

\* What the drivers and the review loop leave alone: none of them calls
\* commit_and_push_changes.
aside == <<calc, git, post>>

\* No pure function is being applied.
NoCalc == [pc |-> "off"]

\* No post-task is in sight.
OffPost == [pc |-> "off"]

\* ------------------------------------------------- text predicates
\* marker in content
Contains(content, marker) ==
    \E i \in 1..(Len(content) - Len(marker) + 1) :
        SubSeq(content, i, i + Len(marker) - 1) = marker

\* re.search of the marker under a negative lookbehind for a quote character
_is_standalone_marker(content, marker) ==
    \E i \in 1..(Len(content) - Len(marker) + 1) :
        /\ SubSeq(content, i, i + Len(marker) - 1) = marker
        /\ (i = 1 \/ content[i - 1] \notin QuoteChars)

\* The same without the two early returns for a report that is not there.
approved_unless_read(report_file, marker) ==
    IF report_file.given /\ report_file.exists
    THEN _is_standalone_marker(report_file.content, marker)
    ELSE TRUE

check_review_approved(report_file, marker) ==
    IF ~report_file.given THEN FALSE
    ELSE IF ~report_file.exists THEN FALSE
    ELSE _is_standalone_marker(report_file.content, marker)

\* ----------------------------------------------- the flow's status
NoAgents == [p \in {} |-> [n |-> 0, done |-> FALSE]]
FreshFlow == [agents |-> NoAgents, completedSteps |-> {}, status |-> "none"]

AgentCount(f, step, role) ==
    IF <<step, role>> \in DOMAIN f.agents THEN f.agents[<<step, role>>].n ELSE 0

has_completed_agent(f, step, role) ==
    /\ <<step, role>> \in DOMAIN f.agents
    /\ f.agents[<<step, role>>].done

get_last_agent_id(f, step, role) ==
    IF AgentCount(f, step, role) = 0 THEN None
    ELSE <<step, role, AgentCount(f, step, role)>>

\* The id flow.run gives the agent it records next for (step, role).
final_agent(f, step, role) == <<step, role, AgentCount(f, step, role) + 1>>

\* flow.run: one more AgentRecord for (step, role), with its exit reason.
flow_run(f, step, role, exit) ==
    LET p == <<step, role>>
        rec == [n |-> AgentCount(f, step, role) + 1,
                done |-> has_completed_agent(f, step, role) \/ exit = Completed]
    IN [f EXCEPT !.agents = [q \in DOMAIN f.agents \cup {p} |->
                                IF q = p THEN rec ELSE f.agents[q]]]

\* A status that would keep the latest completed step only.
mark_latest_step(f, step) == [f EXCEPT !.completedSteps = {step}]

mark_step_completed(f, step) ==
    [f EXCEPT !.completedSteps = f.completedSteps \cup {step}]

set_status(f, value) == [f EXCEPT !.status = value]

\* ------------------------------------------------ history of a run
\* approved: steps one of whose reviewer reports held the approval marker (kept
\* across runs).  The rest is about the current run: failed = an agent ended
\* non-Completed, afterFailure = an agent was invoked after that, reinvoked = an
\* agent was invoked for a (step, role) whose stage was skipped, skipped = the
\* stages skipped for the step at hand, faults = the agents of the flow that
\* ended non-Completed, the validations that failed and the interrupts so far,
\* rejects = its reviewer reports without the marker (both kept across runs),
\* validated = validation ran for the step at hand, fixed = a
\* validation-fixer ran for it, unvalidated = a step was
\* decided without validation, lastCall = the latest flow.run call for the step
\* at hand (site tells the first review of a step from a re-review), misjudged
\* = a report whose markers are all quoted was taken for an approval,
\* still_failing = the validation of the step at hand failed again after its
\* validation-fixer, full_suite = a validation of the run ran the full test
\* suite (is_final_step), adopted = the tips the plan driver took over from
\* the stage groups it skipped as approved.
NoCall == [step |-> 0, role |-> "", site |-> "", after |-> None]
FreshHist == [approved |-> {}, faults |-> 0, rejects |-> 0,
              failed |-> FALSE, afterFailure |-> FALSE,
              reinvoked |-> FALSE, skipped |-> {}, validated |-> FALSE,
              fixed |-> FALSE, unvalidated |-> FALSE, lastCall |-> NoCall,
              misjudged |-> FALSE, still_failing |-> FALSE,
              full_suite |-> FALSE, adopted |-> {}]

\* One agent invocation noted in the history.
Called(h, step, role, site, after, exit) ==
    [h EXCEPT !.reinvoked = h.reinvoked \/ <<step, role>> \in h.skipped,
              !.afterFailure = h.afterFailure \/ h.failed,
              !.failed = h.failed \/ exit # Completed,
              !.faults = h.faults + (IF exit # Completed THEN 1 ELSE 0),
              !.fixed = h.fixed \/ role = "validation-fixer",
              !.lastCall = [step |-> step, role |-> role, site |-> site, after |-> after]]

Invoked(h, step, role, after, exit) == Called(h, step, role, role, after, exit)

\* The exit reasons an agent invocation may still end with.
Exits == IF hist.faults < MaxFaults THEN ExitReasons ELSE {Completed}

Skipped(h, step, role) == [h EXCEPT !.skipped = h.skipped \cup {<<step, role>>}]

HoldsMarker(report) ==
    report.given /\ report.exists /\ Contains(report.content, approval_marker)

Reviewed(h, step, report) ==
    IF HoldsMarker(report)
    THEN [h EXCEPT !.approved = h.approved \cup {step}]
    ELSE [h EXCEPT !.rejects = h.rejects + 1]

\* Every occurrence of the approval marker in the report follows a quote
\* character, and there is one.
QuotedMarkersOnly(report) ==
    /\ report.given /\ report.exists
    /\ Contains(report.content, approval_marker)
    /\ ~_is_standalone_marker(report.content, approval_marker)

\* The driver decided on a report.
Judged(h, report, approved) ==
    [h EXCEPT !.misjudged = h.misjudged \/ (approved /\ QuotedMarkersOnly(report))]

\* The reports a reviewer may still hand back, and the validation outcomes.
Reports(all) ==
    IF hist.rejects < MaxRejects THEN all ELSE {r \in all : HoldsMarker(r)}

Outcomes == IF hist.faults < MaxFaults THEN BOOLEAN ELSE {TRUE}

\* The driver turns to its next step.
NextStepHist(h) ==
    [h EXCEPT !.skipped = {}, !.validated = FALSE, !.fixed = FALSE,
              !.lastCall = NoCall, !.still_failing = FALSE]

\* A step is decided (marked completed).
Decided(h) == [h EXCEPT !.unvalidated = h.unvalidated \/ ~h.validated]

\* ------------------------------------------- implement.py: main()
IdleImpl == [pc |-> "idle", run |-> 0, exitCode |-> 0, n_steps |-> 0,
             start_step |-> 1, pending_steps |-> <<>>, idx |-> 1,
             is_final_step |-> FALSE, last_agent_id |-> None, attempt |-> 0,
             review_result |-> [final_agent |-> None, report_file |-> NoReport],
             fix_result |-> [final_agent |-> None]]

Max(S) == CHOOSE m \in S : \A x \in S : x <= m

\* get_pending_steps: the plan's steps not marked completed in the document.
get_pending_steps(doc, n) ==
    SelectSeq([i \in 1..n |-> i], LAMBDA s : s \notin doc)

\* args.step if args.step else 1, then the --resume scan over reversed(all_steps).
start_step_of(f, n, resume, step_arg) ==
    LET reviewed == {s \in 1..n : has_completed_agent(f, s, "reviewer")}
    IN IF resume /\ reviewed # {} THEN Max(reviewed) + 1
       ELSE IF step_arg # 0 THEN step_arg ELSE 1

step_number == impl.pending_steps[impl.idx]

\* The process has exited: its locals are gone.
Exited(code) ==
    [IdleImpl EXCEPT !.pc = "exited", !.exitCode = code, !.run = impl.run,
                     !.n_steps = impl.n_steps]

\* Flow(...), get_all_steps, the starting step and the pending steps.
StartRun(resume, step_arg) ==
    /\ impl.pc \in {"idle", "exited"}
    /\ impl.run < MaxRuns
    /\ LET f == set_status(flow, "running")
           i == [IdleImpl EXCEPT !.run = impl.run + 1, !.n_steps = impl.n_steps]
       IN /\ flow' = f
          /\ hist' = [FreshHist EXCEPT !.approved = hist.approved, !.faults = hist.faults,
                                     !.rejects = hist.rejects]
          /\ impl' = IF impl.n_steps = 0
                     THEN [i EXCEPT !.pc = "exited", !.exitCode = 1]
                     ELSE [i EXCEPT !.pc = "loop",
                                    !.start_step = start_step_of(f, impl.n_steps, resume, step_arg),
                                    !.pending_steps = get_pending_steps(planDoc, impl.n_steps)]
    /\ UNCHANGED <<planDoc, loop, plan>>
    /\ UNCHANGED aside

\* The head of the for loop: the end of the run, a skipped step, or the
\* builder stage's skip check.
\* Line 185: the recorded builder becomes the chain tip.
BuilderSkipKeepsTip == impl.last_agent_id

BuilderSkipTip == get_last_agent_id(flow, step_number, "builder")

\* Line 205: validation follows the builder stage, skipped or not.
BuilderSkipGoesToReview == "reviewer"

AfterBuilderSkip == "validate"

LoopHead ==
    /\ impl.pc = "loop"
    /\ IF impl.idx > Len(impl.pending_steps)
       THEN /\ flow' = set_status(flow, "completed")
            /\ impl' = Exited(0)
            /\ hist' = hist
       ELSE IF step_number < impl.start_step
       THEN /\ impl' = [impl EXCEPT !.idx = impl.idx + 1]
            /\ UNCHANGED <<flow, hist>>
       ELSE IF has_completed_agent(flow, step_number, "builder")
       THEN /\ impl' = [impl EXCEPT !.is_final_step = (impl.idx = Len(impl.pending_steps)),
                                    !.last_agent_id = BuilderSkipTip,
                                    !.pc = AfterBuilderSkip]
            /\ hist' = Skipped(NextStepHist(hist), step_number, "builder")
            /\ flow' = flow
       ELSE /\ impl' = [impl EXCEPT !.is_final_step = (impl.idx = Len(impl.pending_steps)),
                                    !.pc = "builder"]
            /\ hist' = NextStepHist(hist)
            /\ flow' = flow
    /\ UNCHANGED <<planDoc, loop, plan>>
    /\ UNCHANGED aside

RunBuilder(exit) ==
    /\ impl.pc = "builder"
    /\ hist' = Invoked(hist, step_number, "builder", impl.last_agent_id, exit)
    /\ LET f == flow_run(flow, step_number, "builder", exit)
       IN IF exit # Completed
          THEN /\ flow' = set_status(f, "failed")
               /\ impl' = Exited(1)
          ELSE /\ flow' = f
               /\ impl' = [impl EXCEPT !.last_agent_id = final_agent(flow, step_number, "builder"),
                                       !.pc = "validate"]
    /\ UNCHANGED <<planDoc, loop, plan>>
    /\ UNCHANGED aside

\* Lines 280-284: the step is marked completed in the plan file and the status.
MarkStep(f, h, tip) ==
    /\ planDoc' = planDoc \cup {step_number}
    /\ flow' = mark_step_completed(f, step_number)
    /\ hist' = Decided(h)
    /\ impl' = [impl EXCEPT !.last_agent_id = tip, !.idx = impl.idx + 1, !.pc = "loop",
                            !.attempt = IdleImpl.attempt,
                            !.review_result = IdleImpl.review_result,
                            !.fix_result = IdleImpl.fix_result]

\* Lines 226-233, reached once validation is over: the reviewer's skip check.
AfterValidation(h, tip) ==
    IF has_completed_agent(flow, step_number, "reviewer")
    THEN MarkStep(flow, Skipped(h, step_number, "reviewer"),
                  get_last_agent_id(flow, step_number, "reviewer"))
    ELSE /\ impl' = [impl EXCEPT !.last_agent_id = tip, !.pc = "reviewer"]
         /\ hist' = h
         /\ UNCHANGED <<flow, planDoc>>

Validated(h, passed) ==
    [h EXCEPT !.validated = TRUE,
              !.full_suite = h.full_suite \/ impl.is_final_step,
              !.faults = h.faults + (IF passed THEN 0 ELSE 1)]

RunValidation(passed) ==
    /\ impl.pc = "validate"
    /\ IF passed
       THEN AfterValidation(Validated(hist, passed), impl.last_agent_id)
       ELSE /\ impl' = [impl EXCEPT !.pc = "validation_fixer"]
            /\ hist' = Validated(hist, passed)
            /\ UNCHANGED <<flow, planDoc>>
    /\ UNCHANGED <<loop, plan>>
    /\ UNCHANGED aside

RunValidationFixer(exit) ==
    /\ impl.pc = "validation_fixer"
    /\ flow' = flow_run(flow, step_number, "validation-fixer", exit)
    /\ hist' = Invoked(hist, step_number, "validation-fixer", impl.last_agent_id, exit)
    /\ impl' = [impl EXCEPT !.last_agent_id = final_agent(flow, step_number, "validation-fixer"),
                            !.pc = "revalidate"]
    /\ UNCHANGED <<planDoc, loop, plan>>
    /\ UNCHANGED aside

\* The validation after the validation-fixer; its failure is only logged.
Revalidated(h, passed) ==
    [h EXCEPT !.validated = TRUE, !.still_failing = ~passed,
              !.full_suite = h.full_suite \/ impl.is_final_step]

Revalidate(passed) ==
    /\ impl.pc = "revalidate"
    /\ AfterValidation(Revalidated(hist, passed), impl.last_agent_id)
    /\ UNCHANGED <<loop, plan>>
    /\ UNCHANGED aside

\* "REVIEW_RESULT: APPROVED" in report_content
impl_approved(report_file) == Contains(report_file.content, approval_marker)

RunReviewer(exit, report) ==
    /\ impl.pc = "reviewer"
    /\ LET f == flow_run(flow, step_number, "reviewer", exit)
           id == final_agent(flow, step_number, "reviewer")
           h == Judged(Reviewed(Called(hist, step_number, "reviewer", "review",
                                       impl.last_agent_id, exit),
                                step_number, report),
                       report, report.given /\ impl_approved(report))
       IN IF report.given /\ ~impl_approved(report)
          THEN /\ impl' = [impl EXCEPT !.review_result = [final_agent |-> id, report_file |-> report],
                                       !.attempt = 0,
                                       !.pc = "review_fixer"]
               /\ flow' = f
               /\ hist' = h
               /\ planDoc' = planDoc
          ELSE MarkStep(f, h, id)
    /\ UNCHANGED <<loop, plan>>
    /\ UNCHANGED aside

RunReviewFixer(exit) ==
    /\ impl.pc = "review_fixer"
    /\ flow' = flow_run(flow, step_number, "review-fixer", exit)
    /\ hist' = Invoked(hist, step_number, "review-fixer", impl.review_result.final_agent, exit)
    /\ impl' = [impl EXCEPT !.fix_result = [final_agent |-> final_agent(flow, step_number, "review-fixer")],
                            !.pc = "re_review"]
    /\ UNCHANGED <<planDoc, loop, plan>>
    /\ UNCHANGED aside

RunReReview(exit, report) ==
    /\ impl.pc = "re_review"
    /\ LET f == flow_run(flow, step_number, "reviewer", exit)
           id == final_agent(flow, step_number, "reviewer")
           h == Judged(Reviewed(Called(hist, step_number, "reviewer", "re-review",
                                       impl.fix_result.final_agent, exit),
                                step_number, report),
                       report, report.given /\ impl_approved(report))
       IN IF (report.given /\ impl_approved(report)) \/ impl.attempt + 1 >= ImplFixAttempts
          THEN MarkStep(f, h, id)
          ELSE /\ impl' = [impl EXCEPT !.review_result = [final_agent |-> id, report_file |-> report],
                                       !.attempt = impl.attempt + 1,
                                       !.pc = "review_fixer"]
               /\ flow' = f
               /\ hist' = h
               /\ planDoc' = planDoc
    /\ UNCHANGED <<loop, plan>>
    /\ UNCHANGED aside

\* An operator interrupt while the process is blocked in an agent invocation:
\* the flow's context manager writes the status Interrupted.
BlockedInAgent == {"builder", "validation_fixer", "reviewer", "review_fixer", "re_review"}

Interrupt ==
    /\ impl.pc \in BlockedInAgent
    /\ hist.faults < MaxFaults
    /\ flow' = set_status(flow, "interrupted")
    /\ impl' = Exited(130)
    /\ hist' = [hist EXCEPT !.faults = hist.faults + 1]
    /\ UNCHANGED <<planDoc, loop, plan>>
    /\ UNCHANGED aside

ImplNext ==
    \/ \E resume \in BOOLEAN, step_arg \in 0..MaxSteps : StartRun(resume, step_arg)
    \/ LoopHead
    \/ \E exit \in Exits : RunBuilder(exit)
    \/ \E passed \in Outcomes : RunValidation(passed)
    \/ \E exit \in Exits : RunValidationFixer(exit)
    \/ \E passed \in BOOLEAN : Revalidate(passed)
    \/ \E exit \in Exits, report \in Reports(ImplReports) : RunReviewer(exit, report)
    \/ \E exit \in Exits : RunReviewFixer(exit)
    \/ \E exit \in Exits, report \in Reports(ImplReports) : RunReReview(exit, report)
    \/ Interrupt

IdleLoop == [pc |-> "off"]
OffPlan == [pc |-> "off"]

InitImpl ==
    /\ flow = FreshFlow
    /\ planDoc = {}
    /\ hist = FreshHist
    /\ \E n \in {0, MaxSteps} : impl = [IdleImpl EXCEPT !.n_steps = n]
    /\ loop = IdleLoop
    /\ plan = OffPlan
    /\ calc = NoCalc
    /\ git = 0
    /\ post = OffPost

SpecImpl == InitImpl /\ [][ImplNext]_vars

\* orchestration_utils.py, InfoTracker.add_to_input: if self._info and not
\* self._used; info is None (given = FALSE) or a text.
AddsAlways(info, used) == info.given /\ info.text # <<>>
AddsInfo(info, used) == info.given /\ info.text # <<>> /\ ~used

\* ------------------------------------- plan.py: main(), run_step1_create
\* The draft file: whether it exists, holds the showcase placeholder, holds the
\* "## Implementation Steps" header, holds a showcase section.
NoDraft == [exists |-> FALSE, placeholder |-> FALSE, impl_marker |-> FALSE,
            showcase |-> FALSE]
Drafts == {NoDraft} \cup
          {[exists |-> TRUE, placeholder |-> p, impl_marker |-> i, showcase |-> w] :
              p \in BOOLEAN, i \in BOOLEAN, w \in BOOLEAN}

\* latest: per step the agent id flow.run produced last; approved4: the report
\* of the latest reviewer of step 4 holds the approval marker (both are read
\* back from the status file and the report files); cp: the human checkpoint
\* at hand; attempt: the pass of the review loop of step 4.  info: the run was
\* started with a non-empty --info; _used: the flag of its InfoTracker; ran: the
\* agents the run has invoked, counted up to two; informed: which of them, the
\* first or a later one, had the additional context in its input.
NoLatest == [s \in 1..4 |-> None]
IdlePlan == [pc |-> "idle", run |-> 0, exitCode |-> 0, last_agent_id |-> None,
             draft |-> NoDraft, latest |-> NoLatest, approved4 |-> FALSE,
             cp |-> 0, attempt |-> 0,
             info |-> FALSE, _used |-> FALSE, ran |-> 0, informed |-> {}]

\* Where main() stands: pc is the agent it is about to run or the prompt it is
\* about to show, "finalize" or "create_failed" (run_step1_create returned
\* False); adopted notes, for every stage group skipped as approved, the step,
\* the tip taken over and the agent of the step that was produced last.
At(pc, tip, sk, ad) == [pc |-> pc, tip |-> tip, skipped |-> sk, adopted |-> ad]

\* MAX_REVIEW_FIX_ATTEMPTS
PlanReviewAttempts == 3

FirstOf(ids) == IF \E i \in 1..Len(ids) : ids[i] # None
                THEN ids[CHOOSE i \in 1..Len(ids) :
                            ids[i] # None /\ \A j \in 1..(i - 1) : ids[j] = None]
                ELSE None

\* The tip main() takes over from a step 3 whose checkpoint is completed.
Step3Tip(f) == FirstOf(<<get_last_agent_id(f, 3, "human-feedback-fixer"),
                         get_last_agent_id(f, 3, "showcase-regenerator"),
                         get_last_agent_id(f, 3, "showcase")>>)

\* The tip run_step4_review takes over from a review that is approved.
Step4Tip(f) == FirstOf(<<get_last_agent_id(f, 4, "showcase-regenerator"),
                         get_last_agent_id(f, 4, "fixer"),
                         get_last_agent_id(f, 4, "reviewer")>>)

_is_step_completed(f, step) == step \in f.completedSteps

_check_step_approved(f, pl) ==
    get_last_agent_id(f, 4, "reviewer") # None /\ pl.approved4

\* The same without the final checkpoint.
FinalizeUnasked(f, tip, sk, ad) == At("finalize", tip, sk, ad)

\* HUMAN CHECKPOINT 4.5, up to the prompt.
Checkpoint4Stage(f, tip, sk, ad) ==
    IF _is_step_completed(f, 4) THEN At("finalize", tip, sk, ad)
    ELSE At("checkpoint4", tip, sk, ad)

\* STEP 4: Review, up to the reviewer.
Step4Stage(f, pl, tip, sk, ad) ==
    IF _check_step_approved(f, pl)
    THEN Checkpoint4Stage(f, Step4Tip(f), sk,
                          ad \cup {<<4, Step4Tip(f), pl.latest[4]>>})
    ELSE At("reviewer4", tip, sk, ad)

\* HUMAN CHECKPOINT 3.5, up to the prompt.
Checkpoint3Stage(f, pl, tip, sk, ad) ==
    IF _is_step_completed(f, 3)
    THEN Step4Stage(f, pl, Step3Tip(f), sk,
                    ad \cup {<<3, Step3Tip(f), pl.latest[3]>>})
    ELSE At("checkpoint3", tip, sk, ad)

\* STEP 3: Showcase, up to the agent invocation.
ShowcaseStage(f, pl, d, tip, sk) ==
    IF has_completed_agent(f, 3, "showcase")
    THEN Checkpoint3Stage(f, pl, get_last_agent_id(f, 3, "showcase"),
                          sk \cup {<<3, "showcase">>}, {})
    ELSE IF ~d.exists THEN At("create_failed", tip, sk, {})
    ELSE IF ~d.placeholder
    THEN (IF d.showcase THEN Checkpoint3Stage(f, pl, tip, sk, {})
          ELSE At("create_failed", tip, sk, {}))
    ELSE At("showcase", tip, sk, {})

\* STEP 2: Draft, up to the agent invocation.
DraftStage(f, pl, d, tip, sk) ==
    IF has_completed_agent(f, 2, "drafter")
    THEN ShowcaseStage(f, pl, d, get_last_agent_id(f, 2, "drafter"),
                       sk \cup {<<2, "drafter">>})
    ELSE At("drafter", tip, sk, {})

\* STEP 1: Analyze, up to the agent invocation.
AnalyzeStage(f, pl, d) ==
    IF has_completed_agent(f, 1, "analyzer")
    THEN DraftStage(f, pl, d, get_last_agent_id(f, 1, "analyzer"), {<<1, "analyzer">>})
    ELSE At("analyzer", None, {}, {})

\* The roles whose input main() and its stages build with
\* info_tracker.add_to_input.
UsesTracker(role) ==
    role \in {"analyzer", "drafter", "reviewer", "fixer", "human-feedback-fixer"}

\* flow.run produced the agent id for its step, on an input that went through
\* the InfoTracker or not.
Made(pl, id) ==
    LET adds == UsesTracker(id[2]) /\ AddsInfo([given |-> pl.info, text |-> <<"i">>], pl._used)
        nth == IF pl.ran = 0 THEN 1 ELSE 2
    IN [pl EXCEPT !.latest[id[1]] = id,
                  !._used = pl._used \/ adds,
                  !.ran = nth,
                  !.informed = IF adds THEN pl.informed \cup {nth} ELSE pl.informed]

\* main() takes up what the stages came to: it goes on to the agent or the
\* prompt, fails the flow and exits, or finalizes the spec and completes.
Land(at, f, h, pl) ==
    /\ hist' = [h EXCEPT !.skipped = at.skipped,
                         !.adopted = h.adopted \cup at.adopted]
    /\ IF at.pc = "create_failed"
       THEN /\ flow' = set_status(f, "failed")
            /\ plan' = [pl EXCEPT !.pc = "exited", !.exitCode = 1,
                                  !.last_agent_id = None]
       ELSE IF at.pc = "finalize"
       THEN /\ flow' = set_status(f, "completed")
            /\ plan' = [pl EXCEPT !.pc = "exited", !.exitCode = 0,
                                  !.last_agent_id = None, !.draft = NoDraft]
       ELSE /\ flow' = f
            /\ plan' = [pl EXCEPT !.pc = at.pc, !.last_agent_id = at.tip,
                                  !.cp = IF at.pc = "checkpoint3" THEN 3
                                         ELSE IF at.pc = "checkpoint4" THEN 4 ELSE 0,
                                  !.attempt = 0]

\* A stage returned False: main() fails the flow and exits.
StageFailed(f, h, pl) == Land(At("create_failed", None, h.skipped, {}), f, h, pl)

PlanStart(reset) ==
    /\ plan.pc \in {"idle", "exited"}
    /\ plan.run < MaxRuns
    /\ flow.status # "completed"
    /\ \E info \in BOOLEAN :
          LET f == set_status(IF reset THEN FreshFlow ELSE flow, "running")
              h == [FreshHist EXCEPT !.faults = hist.faults]
              pl == [plan EXCEPT !.run = plan.run + 1, !.exitCode = 0,
                                 !.latest = IF reset THEN NoLatest ELSE plan.latest,
                                 !.approved4 = IF reset THEN FALSE ELSE plan.approved4,
                                 !.info = info, !._used = FALSE, !.ran = 0,
                                 !.informed = {}]
          IN Land(AnalyzeStage(f, pl, pl.draft), f, h, pl)
    /\ UNCHANGED <<planDoc, impl, loop>>
    /\ UNCHANGED aside

RunAnalyzer(exit) ==
    /\ plan.pc = "analyzer"
    /\ LET f == flow_run(flow, 1, "analyzer", exit)
           id == final_agent(flow, 1, "analyzer")
           h == Invoked(hist, 1, "analyzer", None, exit)
           pl == Made(plan, id)
       IN IF exit # Completed
          THEN StageFailed(f, h, pl)
          ELSE Land(DraftStage(f, pl, pl.draft, id, hist.skipped), f, h, pl)
    /\ UNCHANGED <<planDoc, impl, loop>>
    /\ UNCHANGED aside

\* The drafter leaves the draft d; a missing placeholder is inserted before the
\* implementation steps header when there is one.
RunDrafter(exit, d) ==
    /\ plan.pc = "drafter"
    /\ LET f == flow_run(flow, 2, "drafter", exit)
           id == final_agent(flow, 2, "drafter")
           h == Invoked(hist, 2, "drafter", plan.last_agent_id, exit)
           fixed == [d EXCEPT !.placeholder = TRUE]
           pl == Made(plan, id)
       IN IF exit # Completed \/ ~d.exists \/ (~d.placeholder /\ ~d.impl_marker)
          THEN StageFailed(f, h, [pl EXCEPT !.draft = d])
          ELSE Land(ShowcaseStage(f, pl, fixed, id, hist.skipped), f, h,
                    [pl EXCEPT !.draft = fixed])
    /\ UNCHANGED <<planDoc, impl, loop>>
    /\ UNCHANGED aside

\* The showcase planner leaves the draft d; reading a draft that is gone raises,
\* and main() fails the flow on the exception.
RunShowcase(exit, d) ==
    /\ plan.pc = "showcase"
    /\ LET f == flow_run(flow, 3, "showcase", exit)
           id == final_agent(flow, 3, "showcase")
           h == Invoked(hist, 3, "showcase", plan.last_agent_id, exit)
           pl == [Made(plan, id) EXCEPT !.draft = d]
       IN IF exit # Completed \/ ~d.exists \/ d.placeholder \/ ~d.showcase
          THEN StageFailed(f, h, pl)
          ELSE Land(Checkpoint3Stage(f, pl, id, hist.skipped, {}), f, h, pl)
    /\ UNCHANGED <<planDoc, impl, loop>>
    /\ UNCHANGED aside

\* The feedback a human or the plan reviewer may still give in this run.
MayObject == hist.rejects < MaxRejects

\* run_human_approval_checkpoint: the human answers the prompt, with "y" or
\* with feedback.  Approval of the draft marks step 3 in main(), approval of
\* the final review marks step 4 in the checkpoint itself.
HumanReview(approved) ==
    /\ plan.pc \in {"checkpoint3", "checkpoint4"}
    /\ ~approved => MayObject
    /\ IF approved
       THEN LET f == mark_step_completed(flow, plan.cp)
            IN IF plan.cp = 3
               THEN Land(Step4Stage(f, plan, plan.last_agent_id, hist.skipped, {}),
                         f, hist, plan)
               ELSE Land(At("finalize", plan.last_agent_id, hist.skipped, {}),
                         f, hist, plan)
       ELSE /\ plan' = [plan EXCEPT !.pc = "human-feedback-fixer"]
            /\ hist' = [hist EXCEPT !.rejects = hist.rejects + 1]
            /\ flow' = flow
    /\ UNCHANGED <<planDoc, impl, loop>>
    /\ UNCHANGED aside

\* The plan-creator addresses the human feedback.
RunHumanFixer(exit) ==
    /\ plan.pc = "human-feedback-fixer"
    /\ LET f == flow_run(flow, plan.cp, "human-feedback-fixer", exit)
           id == final_agent(flow, plan.cp, "human-feedback-fixer")
           h == Invoked(hist, plan.cp, "human-feedback-fixer", plan.last_agent_id, exit)
           pl == Made(plan, id)
       IN IF exit # Completed
          THEN StageFailed(f, h, pl)
          ELSE /\ flow' = f
               /\ hist' = h
               /\ plan' = [pl EXCEPT !.pc = "human-showcase", !.last_agent_id = id]
    /\ UNCHANGED <<planDoc, impl, loop>>
    /\ UNCHANGED aside

\* The showcase is regenerated after the human feedback fix; the checkpoint
\* prompts again whether or not that worked.
RunHumanShowcase(exit) ==
    /\ plan.pc = "human-showcase"
    /\ LET id == final_agent(flow, plan.cp, "showcase-regenerator")
       IN /\ flow' = flow_run(flow, plan.cp, "showcase-regenerator", exit)
          /\ hist' = Invoked(hist, plan.cp, "showcase-regenerator", plan.last_agent_id, exit)
          /\ plan' = [Made(plan, id) EXCEPT
                         !.pc = IF plan.cp = 3 THEN "checkpoint3" ELSE "checkpoint4",
                         !.last_agent_id = IF exit = Completed THEN id
                                           ELSE plan.last_agent_id]
    /\ UNCHANGED <<planDoc, impl, loop>>
    /\ UNCHANGED aside

\* run_step4_review: the plan reviewer; holds = its report holds the approval
\* marker.
RunPlanReviewer(holds) ==
    /\ plan.pc = "reviewer4"
    /\ ~holds => MayObject
    /\ LET f == flow_run(flow, 4, "reviewer", Completed)
           id == final_agent(flow, 4, "reviewer")
           h == Invoked(hist, 4, "reviewer", plan.last_agent_id, Completed)
           pl == [Made(plan, id) EXCEPT !.approved4 = holds]
       IN IF holds
          THEN Land(Checkpoint4Stage(f, id, hist.skipped, {}), f, h,
                    [pl EXCEPT !.attempt = 0])
          ELSE /\ flow' = f
               /\ hist' = [h EXCEPT !.rejects = h.rejects + 1]
               /\ plan' = [pl EXCEPT !.pc = "fixer4", !.last_agent_id = id]
    /\ UNCHANGED <<planDoc, impl, loop>>
    /\ UNCHANGED aside

RunPlanFixer(exit) ==
    /\ plan.pc = "fixer4"
    /\ LET f == flow_run(flow, 4, "fixer", exit)
           id == final_agent(flow, 4, "fixer")
           h == Invoked(hist, 4, "fixer", plan.last_agent_id, exit)
           pl == Made(plan, id)
       IN IF exit # Completed
          THEN StageFailed(f, h, pl)
          ELSE /\ flow' = f
               /\ hist' = h
               /\ plan' = [pl EXCEPT !.pc = "regen4", !.last_agent_id = id]
    /\ UNCHANGED <<planDoc, impl, loop>>
    /\ UNCHANGED aside

\* The showcase is regenerated after the fix; the loop goes on whether or not
\* that worked, and the review fails once its attempts are used up.
RunPlanShowcase(exit) ==
    /\ plan.pc = "regen4"
    /\ LET f == flow_run(flow, 4, "showcase-regenerator", exit)
           id == final_agent(flow, 4, "showcase-regenerator")
           h == Invoked(hist, 4, "showcase-regenerator", plan.last_agent_id, exit)
           pl == Made(plan, id)
           tip == IF exit = Completed THEN id ELSE plan.last_agent_id
       IN IF plan.attempt + 1 >= PlanReviewAttempts
          THEN StageFailed(f, h, pl)
          ELSE /\ flow' = f
               /\ hist' = h
               /\ plan' = [pl EXCEPT !.pc = "reviewer4", !.last_agent_id = tip,
                                     !.attempt = plan.attempt + 1]
    /\ UNCHANGED <<planDoc, impl, loop>>
    /\ UNCHANGED aside

\* except Exception: the handler of main() that fails the flow takes what
\* derives from Exception, which an operator interrupt (KeyboardInterrupt)
\* does not.
HandlesAll(exc) == TRUE
PlanHandles(exc) == exc = "Exception"

\* An operator interrupt while the process is blocked in an agent invocation
\* or at a prompt: past main()'s handler, the flow's context manager writes
\* Interrupted.
PlanInterrupt ==
    /\ plan.pc \in {"analyzer", "drafter", "showcase", "checkpoint3", "checkpoint4",
                    "human-feedback-fixer", "human-showcase", "reviewer4", "fixer4",
                    "regen4"}
    /\ hist.faults < MaxFaults
    /\ flow' = set_status(flow, IF PlanHandles("KeyboardInterrupt") THEN "failed"
                                ELSE "interrupted")
    /\ plan' = [plan EXCEPT !.pc = "exited", !.exitCode = 130, !.last_agent_id = None]
    /\ hist' = [hist EXCEPT !.faults = hist.faults + 1]
    /\ UNCHANGED <<planDoc, impl, loop>>
    /\ UNCHANGED aside

PlanNext ==
    \/ \E reset \in BOOLEAN : PlanStart(reset)
    \/ \E exit \in Exits : RunAnalyzer(exit)
    \/ \E exit \in Exits, d \in Drafts : RunDrafter(exit, d)
    \/ \E exit \in Exits, d \in Drafts : RunShowcase(exit, d)
    \/ \E approved \in BOOLEAN : HumanReview(approved)
    \/ \E exit \in Exits : RunHumanFixer(exit)
    \/ \E exit \in Exits : RunHumanShowcase(exit)
    \/ \E holds \in BOOLEAN : RunPlanReviewer(holds)
    \/ \E exit \in Exits : RunPlanFixer(exit)
    \/ \E exit \in Exits : RunPlanShowcase(exit)
    \/ PlanInterrupt

OffImpl == [IdleImpl EXCEPT !.pc = "off"]

InitPlan ==
    /\ flow = FreshFlow
    /\ planDoc = {}
    /\ hist = FreshHist
    /\ impl = OffImpl
    /\ loop = IdleLoop
    /\ plan = IdlePlan
    /\ calc = NoCalc
    /\ git = 0
    /\ post = OffPost

SpecPlan == InitPlan /\ [][PlanNext]_vars

\* The two drivers that resume from the status file.
SpecDrivers == (InitImpl \/ InitPlan) /\ [][ImplNext \/ PlanNext]_vars

\* ---------------------------------- review_loop.py: run_review_loop
LoopStep == 1

\* One event of a call: an agent invocation (kind = its role, id, after, ok =
\* it ended Completed, report = its report file) or a validation run (ok = it
\* passed).
AgentEvent(kind, id, after, exit, report) ==
    [kind |-> kind, id |-> id, after |-> after, ok |-> (exit = Completed),
     report |-> report]
ValidationEvent(passed) ==
    [kind |-> "validation", id |-> None, after |-> None, ok |-> passed,
     report |-> NoReport]

ReviewLoopResult(approved, final_agent_id, attempts, report_file) ==
    [approved |-> approved, final_agent_id |-> final_agent_id,
     attempts |-> attempts, report_file |-> report_file]

\* The state of a call at its entry.  The locals keep the source's names;
\* reviewers and fixers count the invocations of the call, iter lists the
\* events since the latest reviewer invocation, that one included; invoked
\* counts the agent invocations of the call, last_final is the final agent of
\* the latest one and prev_final that of the one before it; log_level
\* is the level of the message logged when the attempts ran out.
LoopEntry(max_attempts, fail_flow, post_fix, max_val, after_agent_id) ==
    [pc |-> "call",
     max_attempts |-> max_attempts,
     fail_flow_on_max_attempts |-> fail_flow,
     log_level |-> "",
     post_fix |-> post_fix,
     max_validation_fix_attempts |-> max_val,
     after_agent_id |-> after_agent_id,
     attempt |-> 0, last_agent_id |-> None,
     review_result |-> [final_agent |-> None, report_file |-> NoReport],
     current_agent_id |-> None, val_attempt |-> 0,
     result |-> None,
     reviewers |-> 0, fixers |-> 0, iter |-> <<>>,
     invoked |-> 0, last_final |-> None, prev_final |-> None]

\* for attempt in range(config.max_attempts)
OneMoreAttempt(l) == l.max_attempts + 1
OuterRange(l) == l.max_attempts

\* The head of the outer for: one more iteration, or the return after the loop.
OuterHead(l) ==
    IF l.attempt < OuterRange(l)
    THEN [l EXCEPT !.pc = "reviewer"]
    ELSE [l EXCEPT !.pc = "done",
                   !.log_level = IF l.fail_flow_on_max_attempts THEN "ERROR"
                                 ELSE "WARNING",
                   !.result = ReviewLoopResult(FALSE, l.last_agent_id,
                                               l.max_attempts, NoReport)]

\* The end of an iteration of the outer for, tip being the new last_agent_id.
RestartChain(l, tip) ==
    OuterHead([l EXCEPT !.last_agent_id = l.after_agent_id, !.attempt = l.attempt + 1,
                        !.current_agent_id = None, !.val_attempt = 0])
NextAttempt(l, tip) ==
    OuterHead([l EXCEPT !.last_agent_id = tip, !.attempt = l.attempt + 1,
                        !.current_agent_id = None, !.val_attempt = 0])

Returned(l, result) ==
    [l EXCEPT !.pc = "done", !.result = result,
              !.current_agent_id = None, !.val_attempt = 0]

Counted(h, exit) ==
    [h EXCEPT !.faults = h.faults + (IF exit = Completed THEN 0 ELSE 1)]

LoopCall ==
    /\ loop.pc = "call"
    /\ loop' = OuterHead([loop EXCEPT !.last_agent_id = loop.after_agent_id])
    /\ UNCHANGED <<flow, planDoc, impl, hist, plan>>
    /\ UNCHANGED aside

AttemptBudget(l) == l.max_attempts
ApprovedAttempts(l) == l.attempt + 1

LoopReviewer(exit, report) ==
    /\ loop.pc = "reviewer"
    /\ LET id == final_agent(flow, LoopStep, "reviewer")
           l == [loop EXCEPT
                   !.review_result = [final_agent |-> id, report_file |-> report],
                   !.reviewers = loop.reviewers + 1,
                   !.invoked = loop.invoked + 1,
                   !.prev_final = loop.last_final, !.last_final = id,
                   !.iter = <<AgentEvent("reviewer", id, loop.last_agent_id, exit, report)>>]
       IN /\ flow' = flow_run(flow, LoopStep, "reviewer", exit)
          /\ loop' = IF check_review_approved(report, approval_marker)
                     THEN Returned(l, ReviewLoopResult(TRUE, id, ApprovedAttempts(l), report))
                     ELSE [l EXCEPT !.pc = "review_fixer"]
    /\ hist' = Counted(hist, exit)
    /\ UNCHANGED <<planDoc, impl, plan>>
    /\ UNCHANGED aside

NeverFailed(exit) == FALSE
FixerFailed(exit) == exit # Completed

\* run_post_fix_validation is not None and validation_fix_input_fn is not None
PostFixSupplied(l) == l.post_fix

LoopFixer(exit) ==
    /\ loop.pc = "review_fixer"
    /\ LET id == final_agent(flow, LoopStep, "review-fixer")
           l == [loop EXCEPT
                   !.fixers = loop.fixers + 1,
                   !.invoked = loop.invoked + 1,
                   !.prev_final = loop.last_final, !.last_final = id,
                   !.iter = Append(loop.iter,
                               AgentEvent("review-fixer", id, loop.review_result.final_agent,
                                          exit, NoReport))]
       IN /\ flow' = flow_run(flow, LoopStep, "review-fixer", exit)
          /\ loop' = IF FixerFailed(exit)
                     THEN Returned(l, ReviewLoopResult(FALSE, id, l.attempt + 1,
                                                       l.review_result.report_file))
                     ELSE IF PostFixSupplied(l)
                     THEN [l EXCEPT !.pc = "validate", !.last_agent_id = id,
                                    !.current_agent_id = id]
                     ELSE NextAttempt(l, id)
    /\ hist' = Counted(hist, exit)
    /\ UNCHANGED <<planDoc, impl, plan>>
    /\ UNCHANGED aside

\* _run_post_fix_validation_loop returned None.
ValidationGaveUp(l) ==
    Returned(l, ReviewLoopResult(FALSE, l.last_agent_id, l.attempt + 1,
                                 l.review_result.report_file))

\* for val_attempt in range(max_attempts - 1)
SharedRange(l) == l.max_validation_fix_attempts - 1 - l.attempt
InnerRange(l) == l.max_validation_fix_attempts - 1

InnerHead(l) ==
    IF l.val_attempt < InnerRange(l)
    THEN [l EXCEPT !.pc = "val_fixer"]
    ELSE ValidationGaveUp(l)

\* The first validation of _run_post_fix_validation_loop.
LoopValidate(passed) ==
    /\ loop.pc = "validate"
    /\ LET l == [loop EXCEPT !.iter = Append(loop.iter, ValidationEvent(passed))]
       IN loop' = IF passed THEN NextAttempt(l, l.current_agent_id)
                  ELSE InnerHead([l EXCEPT !.val_attempt = 0])
    /\ UNCHANGED <<flow, planDoc, impl, hist, plan>>
    /\ UNCHANGED aside

LoopValFixer(exit) ==
    /\ loop.pc = "val_fixer"
    /\ LET id == final_agent(flow, LoopStep, "validation-fixer")
           l == [loop EXCEPT
                   !.invoked = loop.invoked + 1,
                   !.prev_final = loop.last_final, !.last_final = id,
                   !.iter = Append(loop.iter,
                               AgentEvent("validation-fixer", id, loop.current_agent_id,
                                          exit, NoReport))]
       IN /\ flow' = flow_run(flow, LoopStep, "validation-fixer", exit)
          /\ loop' = IF exit # Completed THEN ValidationGaveUp(l)
                     ELSE [l EXCEPT !.pc = "revalidate", !.current_agent_id = id]
    /\ hist' = Counted(hist, exit)
    /\ UNCHANGED <<planDoc, impl, plan>>
    /\ UNCHANGED aside

LoopRevalidate(passed) ==
    /\ loop.pc = "revalidate"
    /\ LET l == [loop EXCEPT !.iter = Append(loop.iter, ValidationEvent(passed))]
       IN loop' = IF passed THEN NextAttempt(l, l.current_agent_id)
                  ELSE InnerHead([l EXCEPT !.val_attempt = l.val_attempt + 1])
    /\ UNCHANGED <<flow, planDoc, impl, hist, plan>>
    /\ UNCHANGED aside

LoopNext ==
    \/ LoopCall
    \/ \E exit \in Exits, report \in LoopReports : LoopReviewer(exit, report)
    \/ \E exit \in Exits : LoopFixer(exit)
    \/ \E passed \in BOOLEAN : LoopValidate(passed)
    \/ \E exit \in Exits : LoopValFixer(exit)
    \/ \E passed \in BOOLEAN : LoopRevalidate(passed)

\* A call on a flow with nothing recorded for the step, or after its builder.
InitLoop ==
    /\ flow \in {FreshFlow, flow_run(FreshFlow, LoopStep, "builder", Completed)}
    /\ planDoc = {}
    /\ hist = FreshHist
    /\ impl = OffImpl
    /\ plan = OffPlan
    /\ \E m \in 0..MaxAttempts, ff \in BOOLEAN, p \in BOOLEAN, v \in 0..MaxValFix :
          loop = LoopEntry(m, ff, p, v, get_last_agent_id(flow, LoopStep, "builder"))
    /\ calc = NoCalc
    /\ git = 0
    /\ post = OffPost

SpecLoop == InitLoop /\ [][LoopNext]_vars

\* Every agent invocation and validation call returns.
FairSpecLoop == SpecLoop /\ WF_vars(LoopNext)

\* ------------- lib/proof_runner.py: run_proof_generation; run_learnings.py
\* The proof task of a source flow.  status is the status of the flow
\* proof-<name> ("none": read_status returns None), evidence says that
\* evidence.json exists; the rest is about the latest invocation: was = the
\* status it found, force = its argument, collected = it ran the
\* ProofCollector, reset = it opened the proof flow with reset=True, worked =
\* it ran the proof workflow's agents, ret = what it returned.
IdleProof == [pc |-> "idle", runs |-> 0, status |-> "none", evidence |-> FALSE,
              was |-> "none", force |-> FALSE, collected |-> FALSE, reset |-> FALSE,
              worked |-> FALSE, ret |-> FALSE]

\* The learnings task: status is the status of the flow learnings-<name>, was
\* what the latest invocation found, worked = it ran the analysis, code = its
\* exit code.
IdleLearn == [pc |-> "idle", runs |-> 0, status |-> "none", was |-> "none",
              worked |-> FALSE, code |-> 0]

\* pending: the tasks the runner scheduled and no worker has taken up yet.
IdlePost == [pc |-> "idle", exitCode |-> 0, pending |-> {},
             results |-> [proof |-> FALSE, learnings |-> FALSE],
             proof |-> IdleProof, learn |-> IdleLearn]

\* A task may be invoked: by the runner's worker when the runner scheduled it,
\* by hand when no runner is at work.
Startable(name, t) ==
    /\ t.runs < MaxPostRuns
    /\ t.pc \in {"idle", "done"}
    /\ post.pc = "running" => name \in post.pending

ProofReturned(t, value) == [t EXCEPT !.pc = "done", !.ret = value]

\* Lines 85-95: the skip of a proof flow that already completed.
AlwaysRegenerate(was, force) == FALSE
AlreadyCompleted(was, force) == was = "completed" /\ ~force

\* run_proof_generation up to the proof workflow.
ProofInvoke(force, section, scaffolded, parse_ok, collect_ok) ==
    /\ post.pc \in {"idle", "running"}
    /\ Startable("proof", post.proof)
    /\ post.pc = "running" => ~force
    /\ LET t == [post.proof EXCEPT !.runs = post.proof.runs + 1,
                                   !.was = post.proof.status, !.force = force,
                                   !.collected = FALSE, !.reset = FALSE,
                                   !.worked = FALSE, !.ret = FALSE]
           should_collect == ~t.evidence \/ force
       IN post' = [post EXCEPT !.pending = post.pending \ {"proof"}, !.proof =
            IF ~section \/ ~scaffolded THEN ProofReturned(t, TRUE)
            ELSE IF AlreadyCompleted(t.was, force) THEN ProofReturned(t, TRUE)
            ELSE IF ~parse_ok THEN ProofReturned(t, FALSE)
            ELSE IF should_collect /\ ~collect_ok
            THEN ProofReturned([t EXCEPT !.collected = TRUE], FALSE)
            ELSE [t EXCEPT !.pc = "workflow",
                           !.collected = should_collect,
                           !.evidence = TRUE,
                           !.reset = (t.was = "none" \/ force),
                           !.status = "running"]]
    /\ UNCHANGED <<flow, planDoc, impl, hist, loop, plan, calc, git>>

\* run_proof_workflow: the agents of the proof flow, and its outcome.
ProofWorkflow(success) ==
    /\ post.pc # "off"
    /\ post.proof.pc = "workflow"
    /\ post' = [post EXCEPT !.proof =
                   ProofReturned([post.proof EXCEPT
                                     !.worked = TRUE,
                                     !.status = IF success THEN "completed" ELSE "failed"],
                                 success)]
    /\ UNCHANGED <<flow, planDoc, impl, hist, loop, plan, calc, git>>

LearnExited(t, code) == [t EXCEPT !.pc = "done", !.code = code]

\* run_learnings.py main() up to the analysis.  source_ok: the flow directory,
\* the plan and the source flow's status with its config_path are there; no
\* script removes them, so they are there whenever a learnings flow is.
LearnInvoke(source_ok) ==
    /\ post.pc \in {"idle", "running"}
    /\ Startable("learnings", post.learn)
    /\ post.learn.status # "none" => source_ok
    /\ LET t == [post.learn EXCEPT !.runs = post.learn.runs + 1,
                                   !.was = post.learn.status,
                                   !.worked = FALSE, !.code = 0]
       IN post' = [post EXCEPT !.pending = post.pending \ {"learnings"}, !.learn =
            IF ~source_ok THEN LearnExited(t, 1)
            ELSE IF t.was = "completed" THEN LearnExited(t, 0)
            ELSE [t EXCEPT !.pc = "analysis"]]
    /\ UNCHANGED <<flow, planDoc, impl, hist, loop, plan, calc, git>>

\* run_learnings_analysis: the agents of the learnings flow, and its outcome.
LearnAnalysis(success) ==
    /\ post.pc # "off"
    /\ post.learn.pc = "analysis"
    /\ post' = [post EXCEPT !.learn =
                   LearnExited([post.learn EXCEPT
                                   !.worked = TRUE,
                                   !.status = IF success THEN "completed" ELSE "failed"],
                               IF success THEN 0 ELSE 1)]
    /\ UNCHANGED <<flow, planDoc, impl, hist, loop, plan, calc, git>>

\* --------------------------------------------- the ParallelPostTaskRunner
\* The runner starts once every step of the source flow is done and the flow
\* made a commit; it hands both tasks to its pool of two workers.
PostStart ==
    /\ post.pc \in {"idle", "reported"}
    /\ flow.status = "completed"
    /\ git > 0
    /\ \A t \in {post.proof, post.learn} : t.pc \in {"idle", "done"} /\ t.runs < MaxPostRuns
    /\ post' = [post EXCEPT !.pc = "running",
                            !.pending = {"proof", "learnings"}]
    /\ UNCHANGED <<flow, planDoc, impl, hist, loop, plan, calc, git>>

\* What the runner waits for before it reports.
Finished(name, t) == name \notin post.pending /\ t.pc = "done"
AnyFinished == Finished("proof", post.proof) \/ Finished("learnings", post.learn)
AllFinished == Finished("proof", post.proof) /\ Finished("learnings", post.learn)

\* The report: pass or fail per task name, a non-zero exit on a failure.
PostReport ==
    /\ post.pc = "running"
    /\ AllFinished
    /\ LET results == [proof |-> post.proof.ret, learnings |-> post.learn.code = 0]
       IN post' = [post EXCEPT !.pc = "reported",
                               !.results = results,
                               !.exitCode = IF results.proof /\ results.learnings
                                            THEN 0 ELSE 1]
    /\ UNCHANGED <<flow, planDoc, impl, hist, loop, plan, calc, git>>

ProofSteps ==
    \/ \E force, section, scaffolded, parse_ok, collect_ok \in BOOLEAN :
          ProofInvoke(force, section, scaffolded, parse_ok, collect_ok)
    \/ \E success \in BOOLEAN : ProofWorkflow(success)

LearnSteps ==
    \/ \E source_ok \in BOOLEAN : LearnInvoke(source_ok)
    \/ \E success \in BOOLEAN : LearnAnalysis(success)

PostNext ==
    \/ \E force, section, scaffolded, parse_ok, collect_ok \in BOOLEAN :
          ProofInvoke(force, section, scaffolded, parse_ok, collect_ok)
    \/ \E success \in BOOLEAN : ProofWorkflow(success)
    \/ \E source_ok \in BOOLEAN : LearnInvoke(source_ok)
    \/ \E success \in BOOLEAN : LearnAnalysis(success)
    \/ PostStart
    \/ PostReport

\* The source flow has stopped, completed or not, with or without a commit.
InitPost ==
    /\ \E status \in {"completed", "failed"} : flow = set_status(FreshFlow, status)
    /\ planDoc = NoDraft
    /\ impl = IdleImpl
    /\ hist = FreshHist
    /\ loop = IdleLoop
    /\ plan = IdlePlan
    /\ calc = NoCalc
    /\ git \in 0..1
    /\ post = IdlePost

SpecPost == InitPost /\ [][PostNext]_vars

\* Each of the two workers runs its task, and the runner its report.
FairSpecPost ==
    SpecPost /\ WF_vars(ProofSteps) /\ WF_vars(LearnSteps) /\ WF_vars(PostReport)

\* ------------------------- review_loop.py: _is_standalone_marker applied
Alphabet == {"q", "O", "K", "x"}
MarkerAlphabet == {"O", "K"}

\* The sequences over S of length at most n.
Seqs(S, n) == UNION {[1..k -> S] : k \in 0..n}

\* The variables of the drivers while a function is applied on its own.
DriversOff ==
    /\ flow = FreshFlow
    /\ planDoc = {}
    /\ hist = FreshHist
    /\ impl = OffImpl
    /\ loop = IdleLoop
    /\ plan = OffPlan
    /\ git = 0
    /\ post = OffPost

InitMarker ==
    /\ DriversOff
    /\ \E c \in Seqs(Alphabet, MaxLen), k \in Seqs(MarkerAlphabet, MaxMarker) :
          calc = [pc |-> "marker", content |-> c, marker |-> k, result |-> FALSE]

ApplyMarker ==
    /\ calc.pc = "marker"
    /\ calc' = [calc EXCEPT !.pc = "marked",
                            !.result = _is_standalone_marker(calc.content, calc.marker)]
    /\ UNCHANGED <<flow, planDoc, impl, hist, loop, plan, git, post>>

SpecMarker == InitMarker /\ [][ApplyMarker]_vars

\* ------------------- review_loop.py: check_step_review_approved on a status
\* The AgentRecords of a status file in the order of their creation; each has
\* its step, its role and its completion file.
RecordSteps == {1, 2}
RecordRoles == {"reviewer", "fixer"}
RecordReports == {NoReport, ReportOf(Issues), ReportOf(Standalone)}
AgentRecords ==
    [step : RecordSteps, role : RecordRoles, completion_file : RecordReports]

\* The first record of (step, role), 0 when there is none.
first_agent_index(agents, step, role) ==
    LET hits == {i \in 1..Len(agents) : agents[i].step = step /\ agents[i].role = role}
    IN IF hits = {} THEN 0 ELSE CHOOSE i \in hits : \A j \in hits : i <= j

\* flow.get_last_agent_id over the records: a later record of (step, role)
\* overrides an earlier one; 0 when there is none.
last_agent_index(agents, step, role) ==
    LET scan[i \in 0..Len(agents)] ==
            IF i = 0 THEN 0
            ELSE IF agents[i].step = step /\ agents[i].role = role THEN i
            ELSE scan[i - 1]
    IN scan[Len(agents)]

check_step_review_approved(agents, step, marker, role) ==
    LET agent_id == last_agent_index(agents, step, role)
    IN IF agent_id = 0 THEN FALSE
       ELSE IF ~agents[agent_id].completion_file.given THEN FALSE
       ELSE check_review_approved(agents[agent_id].completion_file, marker)

InitRecords ==
    /\ DriversOff
    /\ calc = [pc |-> "records", agents |-> <<>>, step |-> 0, approved |-> FALSE]

\* flow.run, a first invocation or a retry: one more record.
AddRecord(rec) ==
    /\ calc.pc \in {"records", "checked"}
    /\ Len(calc.agents) < MaxRecords
    /\ calc' = [calc EXCEPT !.pc = "records", !.agents = Append(calc.agents, rec),
                            !.step = 0, !.approved = FALSE]
    /\ UNCHANGED <<flow, planDoc, impl, hist, loop, plan, git, post>>

\* The resume-time check of a step.
CheckStep(step) ==
    /\ calc.pc = "records"
    /\ calc' = [calc EXCEPT !.pc = "checked", !.step = step,
                            !.approved = check_step_review_approved(
                                calc.agents, step, approval_marker, "reviewer")]
    /\ UNCHANGED <<flow, planDoc, impl, hist, loop, plan, git, post>>

RecordsNext ==
    \/ \E rec \in AgentRecords : AddRecord(rec)
    \/ \E step \in RecordSteps : CheckStep(step)

SpecRecords == InitRecords /\ [][RecordsNext]_vars

\* ----------------- validation_utils.py: truncate_validation_output applied
\* A line of validation output is kept as what the function tells apart:
\* "sep" a separator of 50 or more "=", "pytest" a line holding "Running:
\* Pytest", "running" another "Running:" line, "fail" a test-failure line
\* (holds "FAILED" and "::"), "sum" a final summary line (holds "passed", "in "
\* and "failed" or "error"), "failsum" a test-failure line whose message makes
\* it match the summary pattern as well, "bound" a status line such as
\* "Pytest Tests: FAIL", "text" any other line.  The function adds "notice"
\* (n = its count), "" and "truncated".
Line(kind) == [kind |-> kind, n |-> 0]
Notice(n) == [kind |-> "notice", n |-> n]
LineAlphabet == {"sep", "pytest", "fail", "sum", "failsum", "text"}

\* "FAILED" in line and "::" in line
IsFailureLine(line) == line.kind \in {"fail", "failsum"}

_is_summary_line(line) == line.kind \in {"sum", "failsum"}

_is_section_boundary(line) == line.kind \in {"sep", "bound"}

\* First pass: count total failures.
total_failures(lines) == Cardinality({i \in 1..Len(lines) : IsFailureLine(lines[i])})

\* N of the notice: total_failures - max_failures_shown.
skipped_failures(total, shown) == total - shown

\* Second pass: build the truncated output, from line i on.
RECURSIVE SecondPass(_, _, _, _, _, _)
SecondPass(lines, i, in_pytest_section, failure_count, max_failures_shown, result_lines) ==
    IF i > Len(lines) THEN result_lines
    ELSE LET line == lines[i]
             next(in, count, res) ==
                 SecondPass(lines, i + 1, in, count, max_failures_shown, res)
         IN IF line.kind = "sep"
            THEN next(IF i + 1 <= Len(lines) /\ lines[i + 1].kind = "pytest" THEN TRUE
                      ELSE IF i + 1 <= Len(lines) /\ lines[i + 1].kind = "running" THEN FALSE
                      ELSE in_pytest_section,
                      failure_count, Append(result_lines, line))
            ELSE IF ~in_pytest_section
            THEN next(in_pytest_section, failure_count, Append(result_lines, line))
            ELSE IF IsFailureLine(line)
            THEN next(in_pytest_section, failure_count + 1,
                      IF failure_count + 1 <= max_failures_shown
                      THEN Append(result_lines, line)
                      ELSE IF failure_count + 1 = max_failures_shown + 1
                      THEN result_lines \o
                           <<Line(""),
                             Notice(skipped_failures(total_failures(lines),
                                                     max_failures_shown)),
                             Line("")>>
                      ELSE result_lines)
            ELSE IF _is_summary_line(line)
            THEN next(in_pytest_section, failure_count, Append(result_lines, line))
            ELSE IF failure_count <= max_failures_shown
            THEN next(in_pytest_section, failure_count, Append(result_lines, line))
            ELSE IF _is_section_boundary(line)
            THEN next(in_pytest_section, failure_count, Append(result_lines, line))
            ELSE next(in_pytest_section, failure_count, result_lines)

\* The characters of a line: every line is taken one character wide, the empty
\* line none.
Width(line) == IF line.kind = "" THEN 0 ELSE 1

\* The offset at which line i of the joined text ends.
RECURSIVE EndOf(_, _)
EndOf(lines, i) ==
    IF i = 0 THEN 0
    ELSE EndOf(lines, i - 1) + (IF i > 1 THEN 1 ELSE 0) + Width(lines[i])

\* len(result) of the joined text.
CharsOf(lines) == EndOf(lines, Len(lines))

\* result[:max_chars] + "\n\n[... output truncated ...]": the lines that end
\* within the limit stay.
SafetyLimit(result_lines, max_chars) ==
    IF CharsOf(result_lines) > max_chars
    THEN SelectSeq([i \in 1..Len(result_lines) |->
                       IF EndOf(result_lines, i) <= max_chars
                       THEN result_lines[i] ELSE Line("cut")],
                   LAMBDA l : l.kind # "cut")
         \o <<Line(""), Line("truncated")>>
    ELSE result_lines

truncate_validation_output(output, max_failures_shown, max_chars) ==
    IF output = <<>> THEN output
    ELSE SafetyLimit(SecondPass(output, 1, FALSE, 0, max_failures_shown, <<>>),
                     max_chars)

InitShape ==
    /\ DriversOff
    /\ \E kinds \in Seqs(LineAlphabet, MaxLines),
          shown \in 0..MaxShown, chars \in {MaxChars, DefaultMaxChars} :
          calc = [pc |-> "shape",
                  output |-> [i \in 1..Len(kinds) |-> Line(kinds[i])],
                  max_failures_shown |-> shown, max_chars |-> chars,
                  result |-> <<>>]

ApplyShape ==
    /\ calc.pc = "shape"
    /\ calc' = [calc EXCEPT !.pc = "shaped",
                            !.result = truncate_validation_output(
                                calc.output, calc.max_failures_shown, calc.max_chars)]
    /\ UNCHANGED <<flow, planDoc, impl, hist, loop, plan, git, post>>

SpecShape == InitShape /\ [][ApplyShape]_vars

\* ---------------- interactive_utils.py: the feedback markers of a draft
\* A draft is kept as the pieces the patterns tell apart: "[" and "]", "F" for
\* the text "FEEDBACK:", "FR" for "FEEDBACK-RESOLVED:", "-R" for "-RESOLVED",
\* "|", "n" for a newline, and "a", "c" for a stretch of other text without
\* white space at its ends.
Marker(original) == <<"[", "F">> \o original \o <<"]">>
ResolvedMarker(comment, original) ==
    <<"[", "FR">> \o comment \o <<"|", "F">> \o original \o <<"]">>

NoMatch == <<0, 0>>
Least(S) == CHOOSE i \in S : \A j \in S : i <= j

\* \[FEEDBACK:\s*.+?\] : the leftmost match, as <<first, last>>.
FindFeedback(content) ==
    LET starts == {i \in 1..Len(content) :
                      /\ content[i] = "["
                      /\ i + 1 <= Len(content) /\ content[i + 1] = "F"
                      /\ \E j \in (i + 3)..Len(content) : content[j] = "]"}
    IN IF starts = {} THEN NoMatch
       ELSE LET i == Least(starts)
            IN <<i, Least({j \in (i + 3)..Len(content) : content[j] = "]"})>>

\* \[FEEDBACK:(?!-RESOLVED)\s*(.+?)\] : the leftmost match.
FindUnresolved(content) ==
    LET starts == {i \in 1..Len(content) :
                      /\ content[i] = "["
                      /\ i + 1 <= Len(content) /\ content[i + 1] = "F"
                      /\ i + 2 <= Len(content) /\ content[i + 2] # "-R"
                      /\ \E j \in (i + 3)..Len(content) : content[j] = "]"}
    IN IF starts = {} THEN NoMatch
       ELSE LET i == Least(starts)
            IN <<i, Least({j \in (i + 3)..Len(content) : content[j] = "]"})>>

\* \[FEEDBACK-RESOLVED:\s*.+?\s*\|\s*FEEDBACK:\s*.+?\] : the leftmost match.
FindResolved(content) ==
    LET bars(i) == {k \in (i + 3)..Len(content) :
                       /\ content[k] = "|"
                       /\ k + 1 <= Len(content) /\ content[k + 1] = "F"
                       /\ \E j \in (k + 3)..Len(content) : content[j] = "]"}
        starts == {i \in 1..Len(content) :
                      /\ content[i] = "["
                      /\ i + 1 <= Len(content) /\ content[i + 1] = "FR"
                      /\ bars(i) # {}}
    IN IF starts = {} THEN NoMatch
       ELSE LET i == Least(starts)
                k == Least(bars(i))
            IN <<i, Least({j \in (k + 3)..Len(content) : content[j] = "]"})>>

Before(content, m) == SubSeq(content, 1, m[1] - 1)
After(content, m) == SubSeq(content, m[2] + 1, Len(content))

\* The member of a set of one.  TheOne({f(y) : y \in {e}}) is f(e), with e
\* worked out once, before f is applied to it.
TheOne(S) == CHOOSE x \in S : TRUE

\* pattern.sub("", content): every match from left to right, none of them in
\* text that a removal has joined.
RECURSIVE RemoveResolved(_)
RemoveResolved(content) ==
    LET m == FindResolved(content)
    IN IF m = NoMatch THEN content
       ELSE Before(content, m)
            \o TheOne({RemoveResolved(rest) : rest \in {After(content, m)}})

RECURSIVE RemoveFeedback(_)
RemoveFeedback(content) ==
    LET m == FindFeedback(content)
    IN IF m = NoMatch THEN content
       ELSE Before(content, m)
            \o TheOne({RemoveFeedback(rest) : rest \in {After(content, m)}})

\* re.sub(r"\n{3,}", "\n\n", content)
RECURSIVE CollapseNewlines(_)
CollapseNewlines(content) ==
    IF Len(content) < 3 THEN content
    ELSE IF content[1] = "n" /\ content[2] = "n" /\ content[3] = "n"
    THEN CollapseNewlines(Tail(content))
    ELSE <<Head(content)>> \o CollapseNewlines(Tail(content))

clean_feedback_markers(content) ==
    TheOne({CollapseNewlines(unmarked) :
               unmarked \in {RemoveFeedback(unresolved) :
                                unresolved \in {RemoveResolved(content)}}})

\* The (context, feedback) pairs; no header comes before a marker in the
\* drafts tried, so the context is "Document start".
RECURSIVE parse_inline_feedback(_)
parse_inline_feedback(content) ==
    LET m == FindUnresolved(content)
    IN IF m = NoMatch THEN <<>>
       ELSE <<<<"Document start", SubSeq(content, m[1] + 2, m[2] - 1)>>>>
            \o TheOne({parse_inline_feedback(rest) : rest \in {After(content, m)}})

\* The leftmost unresolved marker, whatever its text.
FindAnyMarker(content, original) == FindUnresolved(content)

\* \[FEEDBACK:\s*{escaped_feedback}\s*\] : the leftmost match.
FindMarker(content, original) ==
    LET mark == Marker(original)
        starts == {i \in 1..Len(content) :
                      /\ i + Len(mark) - 1 <= Len(content)
                      /\ SubSeq(content, i, i + Len(mark) - 1) = mark}
    IN IF starts = {} THEN NoMatch
       ELSE <<Least(starts), Least(starts) + Len(mark) - 1>>

\* pattern.sub(resolved_marker, content, count=1)
ResolveFirst(content, original, comment) ==
    LET m == FindMarker(content, original)
    IN IF m = NoMatch THEN content
       ELSE Before(content, m) \o ResolvedMarker(comment, original) \o After(content, m)

\* The loop over the resolutions, each an <<original, comment>>.
RECURSIVE resolve_feedback_markers(_, _)
resolve_feedback_markers(content, resolutions) ==
    IF resolutions = <<>> THEN content
    ELSE TheOne({resolve_feedback_markers(replaced, Tail(resolutions)) :
                    replaced \in {ResolveFirst(content, Head(resolutions)[1],
                                               Head(resolutions)[2])}})

\* The drafts tried: up to MaxPieces pieces, each a marker, a resolved marker
\* or a single character of one.
DraftPieces == {<<"[">>, <<"F">>, <<"a">>, <<"]">>, Marker(<<"a">>),
                ResolvedMarker(<<"c">>, <<"a">>)}

RECURSIVE Flatten(_)
Flatten(pieces) == IF pieces = <<>> THEN <<>> ELSE Head(pieces) \o Flatten(Tail(pieces))

Resolutions == {<<<<"a">>, <<"c">>>>}

InitFeedback ==
    /\ DriversOff
    /\ \E pieces \in Seqs(DraftPieces, MaxPieces) :
          calc = [pc |-> "draft", content |-> Flatten(pieces), resolutions |-> <<>>,
                  once |-> <<>>, twice |-> <<>>, parsed |-> <<>>]

\* The finalize step of the plan flow, and a look for what is left.
ApplyClean ==
    /\ calc.pc = "draft"
    /\ LET clean_content == clean_feedback_markers(calc.content)
       IN calc' = [calc EXCEPT !.pc = "cleaned", !.once = clean_content,
                               !.parsed = parse_inline_feedback(clean_content)]
    /\ UNCHANGED <<flow, planDoc, impl, hist, loop, plan, git, post>>

\* The resolutions applied to the draft, and once more to the outcome.
ApplyResolve(resolutions) ==
    /\ calc.pc = "draft"
    /\ LET once == resolve_feedback_markers(calc.content, resolutions)
       IN calc' = [calc EXCEPT !.pc = "resolved", !.resolutions = resolutions,
                               !.once = once,
                               !.twice = resolve_feedback_markers(once, resolutions)]
    /\ UNCHANGED <<flow, planDoc, impl, hist, loop, plan, git, post>>

FeedbackNext ==
    \/ ApplyClean
    \/ \E resolutions \in Seqs(Resolutions, MaxResolutions) : ApplyResolve(resolutions)

SpecFeedback == InitFeedback /\ [][FeedbackNext]_vars

\* --------------------- proof/scripts/validate_evidence.py: validate_semantic
\* A CommandEvidence is kept as its pattern_matched ("None", "True", "False"),
\* a DemoEvidence as its name, commands, passed and failure_reason ("None" or
\* a reason), an EvidenceReport as its cli_evidence and summary.
PatternMatched == {"None", "True", "False"}
DemoNames == {"a", "b"}
FailureReasons == {"None", "reason"}
Demos == [name : DemoNames, commands : Seqs(PatternMatched, MaxCommands),
          passed : BOOLEAN, failure_reason : FailureReasons]

SumOver(f, n) ==
    LET sum[i \in 0..n] == IF i = 0 THEN 0 ELSE sum[i - 1] + f[i]
    IN sum[n]

has_failed_command(demo) == \E k \in 1..Len(demo.commands) : demo.commands[k] = "False"

\* The statistics validate_semantic computes from cli_evidence.
ActualSummary(cli_evidence) ==
    LET failed_in(demo) ==
            IF ~demo.passed THEN Len(demo.commands)
            ELSE Cardinality({k \in 1..Len(demo.commands) : demo.commands[k] = "False"})
        n == Len(cli_evidence)
    IN [total_demos |-> n,
        passed_demos |-> Cardinality({i \in 1..n : cli_evidence[i].passed}),
        failed_demos |-> Cardinality({i \in 1..n : ~cli_evidence[i].passed}),
        total_commands |-> SumOver([i \in 1..n |-> Len(cli_evidence[i].commands)], n),
        passed_commands |->
            SumOver([i \in 1..n |-> Len(cli_evidence[i].commands)
                                       - failed_in(cli_evidence[i])], n),
        failed_commands |-> SumOver([i \in 1..n |-> failed_in(cli_evidence[i])], n)]

SummaryFields == {"total_demos", "passed_demos", "failed_demos", "total_commands",
                  "passed_commands", "failed_commands"}

\* The error messages, in the order of the checks.
validate_semantic(report) ==
    LET demos == report.cli_evidence
        actual == ActualSummary(demos)
        If(cond, error) == IF cond THEN <<error>> ELSE <<>>
        mismatch(field) ==
            If(report.summary[field] # actual[field], "Summary " \o field)
        demo_errors[i \in 0..Len(demos)] ==
            IF i = 0 THEN <<>>
            ELSE demo_errors[i - 1]
                 \o If(demos[i].passed /\ has_failed_command(demos[i]),
                       "passed but has failed commands")
                 \o If(~demos[i].passed /\ ~has_failed_command(demos[i])
                          /\ demos[i].failure_reason = "None",
                       "failed but no failed commands and no failure_reason")
        duplicates[i \in 0..Len(demos)] ==
            IF i = 0 THEN <<>>
            ELSE duplicates[i - 1]
                 \o If(\E j \in 1..(i - 1) : demos[j].name = demos[i].name,
                       "Duplicate demo name")
    IN duplicates[Len(demos)]
       \o mismatch("total_demos") \o mismatch("passed_demos")
       \o mismatch("failed_demos") \o mismatch("total_commands")
       \o mismatch("passed_commands") \o mismatch("failed_commands")
       \o demo_errors[Len(demos)]

\* The reports tried: every list of up to MaxDemos demos, with a summary that
\* is off by one in any of its fields or in none.
InitEvidence ==
    /\ DriversOff
    /\ \E demos \in Seqs(Demos, MaxDemos), off \in SUBSET SummaryFields :
          calc = [pc |-> "evidence",
                  report |-> [cli_evidence |-> demos,
                              summary |-> [f \in SummaryFields |->
                                  ActualSummary(demos)[f]
                                      + (IF f \in off THEN 1 ELSE 0)]],
                  errors |-> <<>>]

ApplyValidate ==
    /\ calc.pc = "evidence"
    /\ calc' = [calc EXCEPT !.pc = "validated",
                            !.errors = validate_semantic(calc.report)]
    /\ UNCHANGED <<flow, planDoc, impl, hist, loop, plan, git, post>>

SpecEvidence == InitEvidence /\ [][ApplyValidate]_vars

\* ----------------------------- orchestration_utils.py: InfoTracker
\* Texts are kept character by character; info is None (given = FALSE) or a
\* text, possibly the empty one.
NoInfo == [given |-> FALSE, text |-> <<>>]
InfoOf(text) == [given |-> TRUE, text |-> text]
Infos == {NoInfo} \cup {InfoOf(t) : t \in Seqs({"i", "j"}, MaxInfo)}
BaseInputs == Seqs({"x", "y"}, MaxInfo)
Separator == <<"\n\nAdditional context:\n">>

\* InfoTracker(info)
InitTracker ==
    /\ DriversOff
    /\ \E info \in Infos :
          calc = [pc |-> "tracker", _info |-> info, _used |-> FALSE, calls |-> <<>>]

\* add_to_input(base_input); calls notes what each call was handed and
\* returned.
add_to_input(base_input) ==
    /\ calc.pc = "tracker"
    /\ Len(calc.calls) < MaxCalls
    /\ LET adds == AddsInfo(calc._info, calc._used)
           returned == IF adds THEN base_input \o Separator \o calc._info.text
                       ELSE base_input
       IN calc' = [calc EXCEPT !._used = calc._used \/ adds,
                               !.calls = Append(calc.calls,
                                   [base_input |-> base_input, returned |-> returned])]
    /\ UNCHANGED <<flow, planDoc, impl, hist, loop, plan, git, post>>

TrackerNext == \E base_input \in BaseInputs : add_to_input(base_input)

SpecTracker == InitTracker /\ [][TrackerNext]_vars

\* ------------- interactive_utils.py, plan.py: the parsers of agent reports
\* A report is kept line by line, a line by its kind: the line of one of the
\* two block markers ("clar" = CLARIFICATION_NEEDED:, "sugg" = SUGGESTIONS:,
\* nothing after the marker on its line), a numbered item, a blank line, a
\* "##" header, another label ending in ":", a "FEEDBACK: text" line, a
\* "RESOLUTION: text" line, or other text.
ReportLines == {"clar", "sugg", "item", "blank", "header", "label", "fb", "res", "text"}

\* stripped.startswith("##"), or stripped.endswith(":") and stripped[0].isalpha()
EndsBlock(kind) == kind \in {"header", "label", "clar", "sugg"}

\* The for of _parse_marker_block from line i on; an item is the sequence of
\* the numbers of its lines.
RECURSIVE ScanItems(_, _, _, _)
ScanItems(lines, i, items, current_item_lines) ==
    LET saved == IF current_item_lines # <<>> THEN Append(items, current_item_lines)
                 ELSE items
    IN IF i > Len(lines) THEN saved
       ELSE IF lines[i] = "blank" /\ current_item_lines = <<>> /\ items = <<>>
       THEN ScanItems(lines, i + 1, items, current_item_lines)
       ELSE IF lines[i] = "item"
       THEN ScanItems(lines, i + 1, saved, <<i>>)
       ELSE IF current_item_lines # <<>>
       THEN IF lines[i] = "blank" \/ EndsBlock(lines[i])
            THEN saved
            ELSE ScanItems(lines, i + 1, items, Append(current_item_lines, i))
       ELSE ScanItems(lines, i + 1, items, current_item_lines)

\* content.find(marker), as the number of the marker's line; 0 is the -1.
MarkerLine(lines, marker) ==
    IF \E i \in 1..Len(lines) : lines[i] = marker
    THEN Least({i \in 1..Len(lines) : lines[i] = marker})
    ELSE 0

_parse_marker_block(lines, marker) ==
    LET marker_pos == MarkerLine(lines, marker)
    IN IF marker_pos = 0 THEN <<>>
       ELSE ScanItems(lines, marker_pos + 1, <<>>, <<>>)

parse_clarification_from_report(lines) == _parse_marker_block(lines, "clar")
parse_suggestions_from_report(lines) == _parse_marker_block(lines, "sugg")

\* FEEDBACK:\s*(.+?)\s*\nRESOLUTION:\s*(.+?)(?=\n\n|\nFEEDBACK:|\Z) under
\* DOTALL, from line i on: the leftmost FEEDBACK line with a RESOLUTION line
\* after it, the nearest such line, and the resolution's text up to a blank
\* line, a FEEDBACK line or the end.  A pair is <<first, resolution, last>>.
RECURSIVE FindPairs(_, _)
FindPairs(lines, i) ==
    LET starts == {f \in i..Len(lines) :
                      lines[f] = "fb" /\ \E r \in (f + 1)..Len(lines) : lines[r] = "res"}
    IN IF starts = {} THEN <<>>
       ELSE LET f == Least(starts)
                r == Least({k \in (f + 1)..Len(lines) : lines[k] = "res"})
                last == Least({k \in r..Len(lines) :
                                  k = Len(lines) \/ lines[k + 1] \in {"blank", "fb"}})
            IN <<<<f, r, last>>>> \o FindPairs(lines, last + 1)

_parse_resolutions_from_report(lines) == FindPairs(lines, 1)

\* A report, or a draft, that one of the parsers is handed.
InitParse ==
    /\ DriversOff
    /\ \/ \E lines \in Seqs(ReportLines, MaxReportLines) :
             calc = [pc |-> "report", content |-> lines, clarifications |-> <<>>,
                     suggestions |-> <<>>, resolutions |-> <<>>, feedback |-> <<>>]
       \/ \E pieces \in Seqs(DraftPieces, MaxDraftPieces) :
             calc = [pc |-> "returned_draft", content |-> Flatten(pieces),
                     clarifications |-> <<>>, suggestions |-> <<>>,
                     resolutions |-> <<>>, feedback |-> <<>>]

ParseReport ==
    /\ calc.pc = "report"
    /\ calc' = [calc EXCEPT !.pc = "report_parsed",
                    !.clarifications = parse_clarification_from_report(calc.content),
                    !.suggestions = parse_suggestions_from_report(calc.content),
                    !.resolutions = _parse_resolutions_from_report(calc.content)]
    /\ UNCHANGED <<flow, planDoc, impl, hist, loop, plan, git, post>>

ParseDraft ==
    /\ calc.pc = "returned_draft"
    /\ calc' = [calc EXCEPT !.pc = "draft_parsed",
                            !.feedback = parse_inline_feedback(calc.content)]
    /\ UNCHANGED <<flow, planDoc, impl, hist, loop, plan, git, post>>

\* The review loop beside the parsers: what each makes of a marker or a
\* report that is not there.
NotFoundNext == LoopNext \/ ParseReport \/ ParseDraft

SpecNotFound == (InitLoop \/ InitParse) /\ [][NotFoundNext]_vars

\* ------------- plan.py: run_human_approval_checkpoint, as main() calls it
\* What prompt_human_review returns: direct_feedback is "None" or the text,
\* inline_feedback the parsed pairs (<<>> for None), returned_draft_path
\* whether the path of the draft came back.
PromptResult(approved, direct_feedback, inline_feedback, returned_draft_path) ==
    [approved |-> approved, direct_feedback |-> direct_feedback,
     inline_feedback |-> inline_feedback, returned_draft_path |-> returned_draft_path]
NoPromptResult == PromptResult(FALSE, "None", <<>>, FALSE)

\* if not draft_file.exists(): return False, "Draft file not found", None, None
ApprovedUnseen == PromptResult(TRUE, "None", <<>>, FALSE)
DraftNotFoundResult == PromptResult(FALSE, "Draft file not found", <<>>, FALSE)

\* if not inline_feedback: ... continue
TakesAnyList(inline_feedback) == FALSE
NoInlineFeedback(inline_feedback) == inline_feedback = <<>>

\* current_agent_id after the showcase regeneration that ended with exit.
TipOfRegenerator(exit, id, current_agent_id) == id
TipAfterRegeneration(exit, id, current_agent_id) ==
    IF exit # Completed THEN current_agent_id ELSE id

\* The drafts a checkpoint starts on: missing, or some markers the human or an
\* earlier checkpoint left (the human adds more, see HumanEdits); a fixer's
\* report: its FEEDBACK/RESOLUTION pairs.
CheckpointMarkers == {Marker(<<"a">>), ResolvedMarker(<<"c">>, <<"a">>)}
CheckpointDrafts ==
    {[exists |-> FALSE, content |-> <<>>]} \cup
    {[exists |-> TRUE, content |-> Flatten(pieces)] :
        pieces \in Seqs(CheckpointMarkers, MaxMarkers)}
ReportPairs == Seqs({<<<<"a">>, <<"c">>>>, <<<<"b">>, <<"c">>>>}, MaxPairs)

\* The agent the checkpoint is chained after: the showcase planner at
\* checkpoint 3.5, the approving reviewer at checkpoint 4.5.
TipRole(step) == IF step = 3 THEN "showcase" ELSE "reviewer"

\* The locals keep the source's names.  response is the latest result of
\* prompt_human_review and fix_after the tip its fixer was chained after;
\* responses, fixers and empties count the non-approving results, the
\* human-feedback-fixers and the "d" answers that found no marker;
\* resolutions are the pairs of the latest fixer's report;
\* fix_ok and showcase_ok tell whether the latest fixer and the latest
\* regeneration ended Completed.
InitCheckpoint ==
    /\ planDoc = {} /\ hist = FreshHist /\ impl = OffImpl /\ loop = IdleLoop
    /\ plan = OffPlan /\ git = 0 /\ post = OffPost
    /\ \E step \in {3, 4}, regenerate_showcase \in BOOLEAN, draft \in CheckpointDrafts :
          /\ flow = set_status(flow_run(FreshFlow, step, TipRole(step), Completed),
                               "running")
          /\ calc = [pc |-> "prompt", step |-> step,
                     regenerate_showcase |-> regenerate_showcase,
                     current_agent_id |-> <<step, TipRole(step), 1>>,
                     draft |-> draft, response |-> NoPromptResult,
                     fix_after |-> None, fix_ok |-> TRUE, showcase_ok |-> TRUE,
                     resolutions |-> <<>>,
                     result |-> <<>>, finalized |-> FALSE, final_spec |-> <<>>,
                     responses |-> 0, fixers |-> 0, empties |-> 0]

\* The human writes one more marker into the draft before answering.
HumanEdits(text) ==
    /\ calc.pc = "prompt"
    /\ calc.draft.exists
    /\ Cardinality({i \in 1..Len(calc.draft.content) : calc.draft.content[i] = "["})
          < MaxMarkers
    /\ calc' = [calc EXCEPT !.draft.content = calc.draft.content \o Marker(text)]
    /\ UNCHANGED <<flow, planDoc, impl, hist, loop, plan, git, post>>

\* The checkpoint takes a non-approving result on to its fixer.
Feedback(c, r) ==
    [c EXCEPT !.pc = "fixer", !.response = r, !.responses = c.responses + 1]

\* approved: the checkpoint returns (True, current_agent_id); main() marks
\* step 3 after checkpoint 3.5, the checkpoint itself marks step 4, and main()
\* then writes the final spec, deletes the draft directory and completes.
Approve(f, c) ==
    /\ calc' = [c EXCEPT !.pc = "returned",
                   !.response = PromptResult(TRUE, "None", <<>>, FALSE),
                   !.result = <<TRUE, c.current_agent_id>>,
                   !.finalized = (c.step = 4),
                   !.final_spec = IF c.step = 4
                                  THEN clean_feedback_markers(c.draft.content)
                                  ELSE <<>>,
                   !.draft = IF c.step = 4 THEN [exists |-> FALSE, content |-> <<>>]
                             ELSE c.draft]
    /\ flow' = IF c.step = 4
               THEN set_status(mark_step_completed(f, 4), "completed")
               ELSE mark_step_completed(f, 3)

\* prompt_human_review on a draft that is not there: no prompt is shown.
DraftNotFound ==
    /\ calc.pc = "prompt"
    /\ ~calc.draft.exists
    /\ calc.responses < MaxFeedback
    /\ IF DraftNotFoundResult.approved
       THEN Approve(flow, calc)
       ELSE calc' = Feedback(calc, DraftNotFoundResult) /\ flow' = flow
    /\ UNCHANGED <<planDoc, impl, hist, loop, plan, git, post>>

\* prompt_human_review: the human answers "y", "d" or a text.
Answer(answer) ==
    /\ calc.pc = "prompt"
    /\ calc.draft.exists
    /\ answer # "y" => calc.responses + calc.empties < MaxFeedback
    /\ IF answer = "y" THEN Approve(flow, calc)
       ELSE IF answer = "d"
       THEN LET inline_feedback == parse_inline_feedback(calc.draft.content)
            IN /\ flow' = flow
               /\ IF NoInlineFeedback(inline_feedback)
                  THEN calc' = [calc EXCEPT !.empties = calc.empties + 1]
                  ELSE calc' = Feedback(calc,
                                   PromptResult(FALSE, "None", inline_feedback, TRUE))
       ELSE /\ flow' = flow
            /\ calc' = Feedback(calc, PromptResult(FALSE, "text", <<>>, FALSE))
    /\ UNCHANGED <<planDoc, impl, hist, loop, plan, git, post>>

\* The plan-creator run on the feedback; resolutions are the pairs of its
\* report (none when it left no report).  A fixer that did not complete ends
\* the checkpoint, and main() fails the flow.
RunFeedbackFixer(exit, resolutions) ==
    /\ calc.pc = "fixer"
    /\ LET id == final_agent(flow, calc.step, "human-feedback-fixer")
           f == flow_run(flow, calc.step, "human-feedback-fixer", exit)
           c == [calc EXCEPT !.fixers = calc.fixers + 1,
                             !.fix_after = calc.current_agent_id,
                             !.fix_ok = (exit = Completed),
                             !.resolutions = resolutions]
           resolves == /\ c.response.inline_feedback # <<>>
                       /\ c.response.returned_draft_path
                       /\ resolutions # <<>>
                       /\ c.draft.exists
       IN IF exit # Completed
          THEN /\ flow' = set_status(f, "failed")
               /\ calc' = [c EXCEPT !.pc = "returned", !.result = <<FALSE, id>>]
          ELSE /\ flow' = f
               /\ calc' = [c EXCEPT
                     !.pc = IF c.regenerate_showcase THEN "regenerator" ELSE "prompt",
                     !.current_agent_id = id,
                     !.draft.content =
                         IF resolves
                         THEN resolve_feedback_markers(c.draft.content, resolutions)
                         ELSE c.draft.content]
    /\ UNCHANGED <<planDoc, impl, hist, loop, plan, git, post>>

\* The showcase planner regenerates the showcase; the checkpoint prompts again
\* however it ended.
RunRegenerator(exit) ==
    /\ calc.pc = "regenerator"
    /\ LET id == final_agent(flow, calc.step, "showcase-regenerator")
       IN /\ flow' = flow_run(flow, calc.step, "showcase-regenerator", exit)
          /\ calc' = [calc EXCEPT
                         !.pc = "prompt",
                         !.showcase_ok = (exit = Completed),
                         !.current_agent_id =
                             TipAfterRegeneration(exit, id, calc.current_agent_id)]
    /\ UNCHANGED <<planDoc, impl, hist, loop, plan, git, post>>

CheckpointNext ==
    \/ \E text \in {<<"a">>, <<"b">>} : HumanEdits(text)
    \/ DraftNotFound
    \/ \E answer \in {"y", "d", "text"} : Answer(answer)
    \/ \E exit \in ExitReasons, resolutions \in ReportPairs :
          RunFeedbackFixer(exit, resolutions)
    \/ \E exit \in ExitReasons : RunRegenerator(exit)

SpecCheckpoint == InitCheckpoint /\ [][CheckpointNext]_vars

\* Every agent invocation returns, the human answers every prompt, and does
\* not withhold the "y" for ever.
FairSpecCheckpoint ==
    SpecCheckpoint /\ WF_vars(CheckpointNext) /\ SF_vars(Answer("y"))

\* ------------- interactive_utils.py: _parse_marker_block on section headers
\* The reports tried on the block parser alone: the kinds of line of
\* ReportLines that bear on a block, and "h1", a header of one "#" ("# Title").
\* Such a line does not start with "##", and its first character is no
\* letter, so neither test of EndsBlock takes it.
BlockLines == {"sugg", "item", "blank", "header", "h1", "label", "text"}

InitBlock ==
    /\ DriversOff
    /\ \E lines \in Seqs(BlockLines, MaxBlockLines) :
          calc = [pc |-> "block", content |-> lines, items |-> <<>>]

ParseBlock ==
    /\ calc.pc = "block"
    /\ calc' = [calc EXCEPT !.pc = "block_parsed",
                            !.items = parse_suggestions_from_report(calc.content)]
    /\ UNCHANGED <<flow, planDoc, impl, hist, loop, plan, git, post>>

BlockNext == ParseBlock

SpecBlock == InitBlock /\ [][BlockNext]_vars

\* -------------------------------------- claims on _is_standalone_marker
\* The positions of content at which marker occurs.
Occurrences(content, marker) ==
    {i \in 1..(Len(content) - Len(marker) + 1) :
        \A j \in 1..Len(marker) : content[i + j - 1] = marker[j]}

\* The occurrence at i comes right after a quote character.
Quoted(content, i) == i > 1 /\ content[i - 1] = "q"

\* C14: _is_standalone_marker is true exactly when the marker occurs somewhere
\* not right after a quote character, the start of the text counting as such a
\* place; so it is false when every occurrence is quoted, and true when a
\* standalone occurrence comes after quoted ones.
C14_StandaloneIff ==
    calc.pc = "marked" =>
        LET occ == Occurrences(calc.content, calc.marker)
        IN /\ calc.result <=> (\E i \in occ : ~Quoted(calc.content, i))
           /\ (\A i \in occ : Quoted(calc.content, i)) => ~calc.result
           /\ 1 \in occ => calc.result
           /\ (\E i \in occ, j \in occ :
                  i < j /\ Quoted(calc.content, i) /\ ~Quoted(calc.content, j))
                 => calc.result

\* The function was applied to a text with a quoted marker and then a
\* standalone one, and to nothing less it said yes.
C14_Witness ==
    /\ calc.pc = "marked"
    /\ calc.marker = approval_marker
    /\ calc.content = <<"q", "O", "K", "O", "K">>
    /\ calc.result

\* -------------------------------------------- claims on run_review_loop
LastEvent == loop.iter[Len(loop.iter)]

Count(kind) == Cardinality({i \in 1..Len(loop.iter) : loop.iter[i].kind = kind})

\* C7: when the report of the k-th reviewer of a call holds the approval marker
\* as standalone text, the call has returned approved = true, attempts = k,
\* final_agent_id = that reviewer and report_file = that report, and the
\* reviewer is the last thing the call invoked.
C7_ApprovalReturnsAtOnce ==
    \A i \in 1..Len(loop.iter) :
        (/\ loop.iter[i].kind = "reviewer"
         /\ check_review_approved(loop.iter[i].report, approval_marker))
        => /\ i = Len(loop.iter)
           /\ loop.pc = "done"
           /\ loop.result = ReviewLoopResult(TRUE, loop.iter[i].id, loop.reviewers,
                                             loop.iter[i].report)
           /\ loop.iter[i].id = <<LoopStep, "reviewer", loop.reviewers>>

\* The second reviewer of a call of three attempts approved, after a quoted
\* marker in the first report had not counted.
C7_Witness ==
    /\ loop.pc = "done"
    /\ loop.max_attempts > 2
    /\ loop.reviewers = 2
    /\ loop.fixers = 1
    /\ loop.result # None
    /\ loop.result.approved
    /\ loop.result.attempts = 2
    /\ loop.result.report_file = ReportOf(QuotedThenStandalone)

\* C8: in one call the reviewer and the review-fixer are each invoked at most
\* max_attempts times, a result reports at most max_attempts attempts, and,
\* every invocation and validation returning, the call ends with a result.
C8_LoopBounded ==
    /\ [](/\ loop.reviewers <= loop.max_attempts
          /\ loop.fixers <= loop.max_attempts
          /\ loop.pc = "done" => loop.result.attempts <= loop.max_attempts)
    /\ <>(loop.pc = "done" /\ loop.result # None)

\* A call used its whole budget: every reviewer rejected, every fixer completed.
C8_Witness ==
    /\ loop.pc = "done"
    /\ loop.max_attempts = MaxAttempts
    /\ loop.reviewers = MaxAttempts
    /\ loop.fixers = MaxAttempts
    /\ ~loop.result.approved
    /\ loop.result.attempts = MaxAttempts

\* C9: when a review-fixer ended other than Completed, the call has returned
\* approved = false, final_agent_id = that fixer and attempts = the number of
\* the iteration, and the fixer is the last thing the call invoked.
C9_FixerFailureAborts ==
    \A i \in 1..Len(loop.iter) :
        (loop.iter[i].kind = "review-fixer" /\ ~loop.iter[i].ok)
        => /\ i = Len(loop.iter)
           /\ loop.pc = "done"
           /\ ~loop.result.approved
           /\ loop.result.final_agent_id = loop.iter[i].id
           /\ loop.iter[i].id = <<LoopStep, "review-fixer", loop.fixers>>
           /\ loop.result.attempts = loop.reviewers
           /\ loop.result.attempts = loop.attempt + 1

\* The review-fixer of the second iteration failed, in a call that had post-fix
\* validation and attempts left.
C9_Witness ==
    /\ loop.pc = "done"
    /\ loop.post_fix
    /\ loop.max_attempts > 2
    /\ loop.reviewers = 2
    /\ LastEvent.kind = "review-fixer"
    /\ ~LastEvent.ok
    /\ loop.result.attempts = 2

\* The validations one iteration may run.
ValidationBudget == IF loop.max_validation_fix_attempts > 1
                    THEN loop.max_validation_fix_attempts ELSE 1

\* C10: with post-fix validation supplied, validation follows every completed
\* review-fixer; each outer iteration has the whole validation budget to
\* itself, whatever the outer counter and the earlier iterations; and when the
\* inner loop ends without a passing validation the call has returned approved
\* = false and invoked no reviewer after it.
C10_PostFixValidation ==
    loop.post_fix =>
    /\ (Len(loop.iter) >= 2 /\ loop.iter[2].ok)
          => IF Len(loop.iter) = 2 THEN loop.pc = "validate"
             ELSE loop.iter[3].kind = "validation"
    /\ Count("validation") <= ValidationBudget
    /\ Count("validation-fixer") <= ValidationBudget - 1
    /\ (Len(loop.iter) >= 3 /\ LastEvent.kind = "validation" /\ ~LastEvent.ok)
          => IF Count("validation") < ValidationBudget
             THEN loop.pc = "val_fixer"
             ELSE loop.pc = "done" /\ ~loop.result.approved
    /\ (Len(loop.iter) >= 3 /\ LastEvent.kind = "validation-fixer")
          => IF LastEvent.ok THEN loop.pc = "revalidate"
             ELSE loop.pc = "done" /\ ~loop.result.approved
    /\ \A i \in 1..Len(loop.iter) :
          (loop.iter[i].kind = "validation" /\ loop.iter[i].ok) => i = Len(loop.iter)

\* The second iteration of a call ran its whole validation budget in vain, the
\* first having spent a validation fix of its own.
C10_Witness ==
    /\ loop.pc = "done"
    /\ loop.post_fix
    /\ loop.max_validation_fix_attempts > 1
    /\ loop.reviewers = 2
    /\ LastEvent.kind = "validation"
    /\ ~LastEvent.ok
    /\ Count("validation") = loop.max_validation_fix_attempts
    /\ AgentCount(flow, LoopStep, "validation-fixer") > Count("validation-fixer")
    /\ ~loop.result.approved

\* The call ran out of attempts: it returned after the outer for.
Exhausted == loop.pc = "done" /\ loop.attempt = loop.max_attempts

\* What a call with fail_flow_on_max_attempts unset hands its caller when the
\* attempts run out.
SoftResult == ReviewLoopResult(FALSE, loop.last_agent_id, loop.max_attempts, NoReport)

\* C11: when the attempts run out with fail_flow_on_max_attempts set, the
\* caller gets an error it can tell from the soft non-approved result of a call
\* with the flag unset: another result, or a flow whose status is failed.
C11_ExhaustionFatalWhenSet ==
    (Exhausted /\ loop.fail_flow_on_max_attempts)
        => (loop.result # SoftResult \/ flow.status = "failed")

\* The latest agent invocation of the call.
LatestInvocation ==
    LET agents == {i \in 1..Len(loop.iter) : loop.iter[i].kind # "validation"}
    IN loop.iter[CHOOSE i \in agents : \A j \in agents : j <= i]

\* C12: the agent invocations of one call form one chain: the first (a
\* reviewer) is invoked after after_agent_id, every later one after the final
\* agent the invocation just before it returned.
C12_LinearChain ==
    loop.invoked > 0 =>
        /\ LatestInvocation.id = loop.last_final
        /\ LatestInvocation.after = IF loop.invoked = 1 THEN loop.after_agent_id
                                    ELSE loop.prev_final
        /\ loop.invoked > 1 => loop.prev_final # None
        /\ loop.invoked = 1 => LatestInvocation.kind = "reviewer"

\* The second reviewer of a call was invoked after the validation-fixer that
\* ended the first iteration, the call itself having started after a builder.
C12_Witness ==
    /\ loop.reviewers = 2
    /\ Len(loop.iter) = 1
    /\ loop.after_agent_id = <<LoopStep, "builder", 1>>
    /\ loop.iter[1].after = <<LoopStep, "validation-fixer", 1>>
    /\ loop.prev_final = <<LoopStep, "validation-fixer", 1>>

\* ---------------------------------------- claims on the implement driver

\* C1: whenever the flow status is Completed, every step number of the plan is
\* in completedSteps (stated as claimed; the driver breaks it when the run
\* starts at a later step through --step or --resume).
C1_CompletedHasAllSteps ==
    flow.status = "completed" => (1..impl.n_steps) \subseteq flow.completedSteps

\* C2: a step is in completedSteps only if a reviewer report for that step held
\* the approval marker (stated as claimed; the driver marks the step after an
\* exhausted fix loop, a missing report and a skipped reviewer all the same).
C2_CompletedOnlyAfterApproval ==
    flow.completedSteps \subseteq hist.approved

\* C3: once an agent invocation of a run ended with an exit reason other than
\* Completed, the run has stopped with the flow status Failed and no further
\* agent was invoked in it (stated as claimed; the driver reads the exit reason
\* of the builder only).
C3_AgentFailureStopsRun ==
    hist.failed => /\ impl.pc = "exited"
                   /\ flow.status = "failed"
                   /\ ~hist.afterFailure

\* C4: when the process has exited with code 1 after the flow was created, the
\* flow status is Failed (stated as claimed; the exit on a plan without steps
\* leaves the status as it was).
C4_FailedBeforeNonZeroExit ==
    (impl.pc = "exited" /\ impl.exitCode = 1) => flow.status = "failed"

\* C5: a stage whose (step, role) has a Completed record is skipped: no agent is
\* invoked for that pair in the run, the last recorded agent of the pair is the
\* chain tip, and the next agent is invoked after it: in implement.py the
\* reviewer, validation having passed; in plan.py the drafter after a skipped
\* analyzer and the showcase planner after a skipped drafter.
Recorded(step, role) ==
    /\ has_completed_agent(flow, step, role)
    /\ get_last_agent_id(flow, step, role) = <<step, role, AgentCount(flow, step, role)>>

ChainedAfter(step, role) ==
    /\ Recorded(step, role)
    /\ hist.lastCall.after = get_last_agent_id(flow, step, role)

C5_SkipAdoptsRecordedTip ==
    /\ ~hist.reinvoked
    /\ \A p \in hist.skipped : Recorded(p[1], p[2])
    /\ (impl.pc = "validate" /\ <<step_number, "builder">> \in hist.skipped)
          => impl.last_agent_id = get_last_agent_id(flow, step_number, "builder")
    /\ (/\ hist.lastCall.site = "review"
        /\ <<hist.lastCall.step, "builder">> \in hist.skipped
        /\ ~hist.fixed)
          => ChainedAfter(hist.lastCall.step, "builder")
    /\ (hist.lastCall.role = "drafter" /\ <<1, "analyzer">> \in hist.skipped)
          => ChainedAfter(1, "analyzer")
    /\ (hist.lastCall.role = "showcase" /\ <<2, "drafter">> \in hist.skipped)
          => ChainedAfter(2, "drafter")
    /\ (plan.pc = "checkpoint3" /\ <<3, "showcase">> \in hist.skipped
            /\ hist.lastCall.step # 3)
          => plan.last_agent_id = get_last_agent_id(flow, 3, "showcase")

\* A later implement run skipped the completed builder of a step, validation
\* passed, and the reviewer was invoked after the recorded builder.
C5_Witness ==
    /\ impl.run > 1
    /\ hist.lastCall.site = "review"
    /\ <<hist.lastCall.step, "builder">> \in hist.skipped
    /\ ~hist.fixed
    /\ hist.lastCall.after = <<hist.lastCall.step, "builder", 1>>

\* C13: no approval decision of the implement driver takes a report whose
\* markers are all quoted for an approval.
C13_StandaloneRuleEverywhere == ~hist.misjudged

\* C15: when the validation of a step still fails after the fix loop, the flow
\* is failed and the run is over: the step goes neither to review nor to
\* completion.
C15_ValidationFailureFatal ==
    hist.still_failing => (flow.status = "failed" /\ impl.pc = "exited")

\* C16: the status becomes completed only in a run that ran the full test
\* suite (read in the claim's favour: the full-suite validation of the final
\* step counts as the final validation).
C16_CompletedAfterFinalValidation ==
    flow.status = "completed" => hist.full_suite

\* The scenario of C17 has run: one run on a fresh flow over a two-step plan,
\* step 1 with one failed validation, its fixer and one approving review, step
\* 2 with one rejecting review, its fixer and an approving re-review.
ScenarioRan ==
    /\ impl.run = 1 /\ impl.pc = "exited" /\ impl.n_steps = 2
    /\ hist.approved = {1, 2} /\ hist.rejects = 1 /\ hist.faults = 1 /\ ~hist.failed
    /\ DOMAIN flow.agents = {<<1, "builder">>, <<1, "validation-fixer">>, <<1, "reviewer">>,
                             <<2, "builder">>, <<2, "reviewer">>, <<2, "review-fixer">>}
    /\ \A p \in DOMAIN flow.agents :
          flow.agents[p].n = (IF p = <<2, "reviewer">> THEN 2 ELSE 1)

\* C17: the scenario ends with exactly 2 commits, completedSteps = {1, 2} and
\* the status completed.
C17_ScenarioTwoCommits ==
    ScenarioRan => /\ git = 2
                   /\ flow.completedSteps = {1, 2}
                   /\ flow.status = "completed"

C6_ValidationNeverSkipped ==
    /\ impl.pc \in {"reviewer", "review_fixer", "re_review"} => hist.validated
    /\ ~hist.unvalidated

\* A resumed run marked a step whose builder and reviewer stages it skipped,
\* after validating it.
C6_Witness ==
    /\ impl.run > 1
    /\ impl.pc = "loop"
    /\ \E s \in 1..impl.n_steps :
          /\ hist.skipped = {<<s, "builder">>, <<s, "reviewer">>}
          /\ s \in flow.completedSteps
    /\ hist.validated

\* C19: the post-tasks start only once the sequential part of the flow has
\* completed; under every interleaving each scheduled task runs to its own
\* completion whatever becomes of the other; the runner reports only after
\* both finished, with a pass or fail per task, and exits non-zero exactly
\* when at least one of them failed.
C19_Started == post.pc \in {"running", "reported"} => flow.status = "completed"
C19_Reported ==
    post.pc = "reported" =>
        /\ Finished("proof", post.proof) /\ Finished("learnings", post.learn)
        /\ post.results = [proof |-> post.proof.ret, learnings |-> post.learn.code = 0]
        /\ post.exitCode # 0 <=> (~post.results.proof \/ ~post.results.learnings)
C19_PostTasksRunToReport ==
    /\ [](C19_Started /\ C19_Reported)
    /\ (post.pc = "running") ~> (post.pc = "reported")
    /\ (post.pc = "running" /\ Finished("proof", post.proof) /\ ~post.proof.ret)
          ~> Finished("learnings", post.learn)
    /\ (post.pc = "running" /\ Finished("learnings", post.learn) /\ post.learn.code # 0)
          ~> Finished("proof", post.proof)

\* The proof task failed, the learnings analysis ran after that and passed, and
\* the report says so.
C19_Witness ==
    /\ post.pc = "reported"
    /\ post.proof.collected /\ ~post.proof.ret /\ ~post.proof.worked
    /\ post.learn.worked /\ post.learn.code = 0
    /\ post.results = [proof |-> FALSE, learnings |-> TRUE]
    /\ post.exitCode = 1

C21_CompletedStepsOnlyGrow ==
    [][PlanStart(TRUE) \/ flow.completedSteps \subseteq flow'.completedSteps]_vars

\* A resumed run of the implement driver found the reviewer of a step recorded,
\* marked the step, and both steps of the plan are in completedSteps.
C21_Witness ==
    /\ impl.run > 1
    /\ impl.pc = "loop"
    /\ impl.n_steps = 2
    /\ \E s \in 1..2 : <<s, "reviewer">> \in hist.skipped
    /\ flow.completedSteps = {1, 2}

\* C22: the last-agent lookup of a (step, role) gives the record of that pair
\* created last, records are only ever added, and the resume-time approval
\* check of a step is decided by the report of the latest reviewer record of
\* the step alone.
LatestOf(agents, step, role) ==
    {i \in 1..Len(agents) :
        /\ agents[i].step = step /\ agents[i].role = role
        /\ \A j \in (i + 1)..Len(agents) :
              ~(agents[j].step = step /\ agents[j].role = role)}
C22_LookupIsLatest ==
    calc.pc \in {"records", "checked"} =>
        /\ \A step \in RecordSteps, role \in RecordRoles :
              LET i == last_agent_index(calc.agents, step, role)
              IN IF LatestOf(calc.agents, step, role) = {} THEN i = 0
                 ELSE LatestOf(calc.agents, step, role) = {i}
        /\ calc.pc = "checked" =>
              (calc.approved <=>
                  \E i \in LatestOf(calc.agents, calc.step, "reviewer") :
                      check_review_approved(calc.agents[i].completion_file,
                                            approval_marker))
C22_RecordsOnlyAdded ==
    (calc.pc \in {"records", "checked"} /\ calc'.agents # calc.agents) =>
        /\ Len(calc'.agents) = Len(calc.agents) + 1
        /\ SubSeq(calc'.agents, 1, Len(calc.agents)) = calc.agents
LinesOf(lines, kinds) == Cardinality({i \in 1..Len(lines) : lines[i].kind \in kinds})

\* C23: truncate_validation_output drops no line that matches the final
\* summary pattern: each such line of the raw output is in the shaped output
\* (stated as claimed; the safety limit on the characters breaks it).
C23_SummaryLinesKept ==
    calc.pc = "shaped" =>
        /\ LinesOf(calc.result, {"sum"}) >= LinesOf(calc.output, {"sum"})
        /\ LinesOf(calc.result, {"failsum"}) >= LinesOf(calc.output, {"failsum"})

\* C24: whenever the notice is there, its N plus the test-failure lines kept
\* equals the test-failure lines of the raw output, and there is one notice at
\* most (stated as claimed; a failure line outside the pytest section breaks
\* it).
C24_NoticeAddsUp ==
    (calc.pc = "shaped" /\ LinesOf(calc.result, {"notice"}) > 0) =>
        /\ LinesOf(calc.result, {"notice"}) = 1
        /\ \A j \in 1..Len(calc.result) :
              calc.result[j].kind = "notice" =>
                 calc.result[j].n + LinesOf(calc.result, {"fail", "failsum"})
                    = total_failures(calc.output)

\* C25: after clean_feedback_markers no unresolved marker is left:
\* parse_inline_feedback of the cleaned draft is the empty list (stated as
\* claimed; a marker inside the opening of another one breaks it).
C25_CleanLeavesNoMarker == calc.pc = "cleaned" => calc.parsed = <<>>

\* C26: applying the resolutions a second time leaves the draft as the first
\* application left it (stated as claimed; two markers with the same text
\* break it).
C26_ResolveTwiceIsNoOp == calc.pc = "resolved" => calc.twice = calc.once

\* C27: a report that validate_semantic accepts has total_demos = the number of
\* demos, passed_demos = the number of demos that passed, and each of its
\* demos has passed = false exactly when one of its commands has
\* pattern_matched = false or it records a failure_reason (stated as claimed;
\* a passed demo that records a failure_reason is accepted).
C27_AcceptedReportConsistent ==
    (calc.pc = "validated" /\ calc.errors = <<>>) =>
        LET report == calc.report
            demos == report.cli_evidence
        IN /\ report.summary.total_demos = Len(demos)
           /\ report.summary.passed_demos
                 = Cardinality({i \in 1..Len(demos) : demos[i].passed})
           /\ \A i \in 1..Len(demos) :
                 ~demos[i].passed <=>
                     (has_failed_command(demos[i]) \/ demos[i].failure_reason # "None")

\* C28: a tracker built with non-empty info hands it on exactly once: its first
\* add_to_input returns the base input with the info appended, every later
\* call returns its base input unchanged; with info None or empty every call
\* returns its base input unchanged.
C28_InfoPassedOnce ==
    calc.pc = "tracker" =>
        \A k \in 1..Len(calc.calls) :
            calc.calls[k].returned =
                IF k = 1 /\ calc._info.given /\ calc._info.text # <<>>
                THEN calc.calls[k].base_input \o Separator \o calc._info.text
                ELSE calc.calls[k].base_input

\* Two calls on a tracker with info: the first got it, the second did not.
C28_Witness ==
    /\ calc.pc = "tracker"
    /\ calc._info = InfoOf(<<"i">>)
    /\ Len(calc.calls) = 2
    /\ calc.calls[1].returned = <<"x">> \o Separator \o <<"i">>
    /\ calc.calls[2] = [base_input |-> <<"y">>, returned |-> <<"y">>]

\* C29: a marker or a report that is not there is a "not found" value:
\* check_review_approved is false for a report path of None and for a file
\* that does not exist, _parse_marker_block, _parse_resolutions_from_report
\* and parse_inline_feedback return the empty list when their marker does not
\* occur, and a reviewer of run_review_loop that left no report is taken as
\* not approved: the loop goes on to the fixer, chained after that reviewer.
AbsentReports == {NoReport, MissingReport}
Occurs(kind, lines) == \E i \in 1..Len(lines) : lines[i] = kind

C29_AbsentReportNotApproved ==
    (loop.pc # "off" /\ loop.iter # <<>> /\ loop.iter[1].report \in AbsentReports) =>
        /\ ~check_review_approved(loop.iter[1].report, approval_marker)
        /\ IF Len(loop.iter) = 1
           THEN loop.pc = "review_fixer" /\ loop.result = None
           ELSE /\ loop.iter[2].kind = "review-fixer"
                /\ loop.iter[2].after = loop.iter[1].id
        /\ (loop.pc = "done" => ~loop.result.approved)

C29_AbsentMarkerEmpty ==
    /\ calc.pc = "report_parsed" =>
          /\ (~Occurs("clar", calc.content) => calc.clarifications = <<>>)
          /\ (~Occurs("sugg", calc.content) => calc.suggestions = <<>>)
          /\ (~Occurs("fb", calc.content) => calc.resolutions = <<>>)
    /\ calc.pc = "draft_parsed" =>
          (~Contains(calc.content, <<"[", "F">>) => calc.feedback = <<>>)

C29_AbsenceIsNotFound == C29_AbsentReportNotApproved /\ C29_AbsentMarkerEmpty

\* A reviewer whose report file does not exist, and the fixer run after it.
C29_Witness ==
    /\ loop.pc # "off"
    /\ Len(loop.iter) >= 2
    /\ loop.iter[1].kind = "reviewer" /\ loop.iter[1].report = MissingReport
    /\ loop.iter[1].ok
    /\ loop.iter[2].kind = "review-fixer" /\ loop.iter[2].after = loop.iter[1].id

\* C30: when the plan flow skips a stage group as already approved (step 3 with
\* its human checkpoint completed, step 4 with its review approved), the tip it
\* takes over for the agents that follow is the agent of that step that was
\* produced last.
C30_AdoptedTipIsLatest ==
    \A a \in hist.adopted : a[2] = a[3]

\* C31: the final_agent_id of every result run_review_loop returns is the id
\* of the agent the call invoked last, also when the post-fix validation loop
\* gave up after validation-fixers ran and when the attempts ran out.
C31_FinalAgentIsLastInvoked ==
    (loop.pc = "done" /\ loop.invoked > 0) =>
        loop.result.final_agent_id = loop.last_final

\* The validation loop of the latest iteration gave up with every validation
\* failing and every validation-fixer ending Completed.
GaveUpValidating ==
    /\ loop.pc = "done"
    /\ loop.post_fix
    /\ Len(loop.iter) >= 3
    /\ LastEvent.kind = "validation"
    /\ \A i \in 3..Len(loop.iter) :
          loop.iter[i].ok <=> loop.iter[i].kind = "validation-fixer"

\* C32: with max_validation_fix_attempts = N >= 1 and validation failing every
\* time, the post-fix validation loop gives up only after exactly N
\* validation-fixer agents were invoked.
C32_GivesUpAfterNFixers ==
    (GaveUpValidating /\ loop.max_validation_fix_attempts >= 1) =>
        Count("validation-fixer") = loop.max_validation_fix_attempts

\* C33: the plan flow is Completed, with the final spec written and the draft
\* directory deleted, only after the create stages succeeded, the human
\* approved the draft (step 3 completed), the review of step 4 was approved and
\* the human approved the final checkpoint (step 4 completed), in this order,
\* each in this run or recorded by an earlier one; Completed implies that steps
\* 3 and 4 are both completed.
C33_Recorded ==
    /\ 3 \in flow.completedSteps =>
          /\ has_completed_agent(flow, 1, "analyzer")
          /\ has_completed_agent(flow, 2, "drafter")
    /\ plan.approved4 =>
          /\ 3 \in flow.completedSteps
          /\ get_last_agent_id(flow, 4, "reviewer") # None
    /\ 4 \in flow.completedSteps => plan.approved4
    /\ flow.status = "completed" =>
          /\ {3, 4} \subseteq flow.completedSteps
          /\ plan.pc = "exited" /\ plan.exitCode = 0
          /\ plan.draft = NoDraft

\* A step is marked from its own human checkpoint only, the review is approved
\* by the reviewer of step 4 only, and the flow completes from the final
\* checkpoint or from a run that found both steps completed.
C33_InOrder ==
    /\ (3 \notin flow.completedSteps /\ 3 \in flow'.completedSteps)
          => plan.pc = "checkpoint3"
    /\ (~plan.approved4 /\ plan'.approved4) => plan.pc = "reviewer4"
    /\ (4 \notin flow.completedSteps /\ 4 \in flow'.completedSteps)
          => plan.pc = "checkpoint4"
    /\ (flow.status # "completed" /\ flow'.status = "completed")
          => \/ plan.pc = "checkpoint4"
             \/ plan.pc \in {"idle", "exited"} /\ {3, 4} \subseteq flow.completedSteps

C33_CompletedInOrder == [](C33_Recorded) /\ [][C33_InOrder]_vars

\* A flow completed by its second run, the first having stopped after the
\* draft was approved.
C33_Witness ==
    /\ flow.status = "completed"
    /\ plan.run = 2
    /\ {3, 4} \subseteq flow.completedSteps
    /\ <<3, "showcase">> \in hist.skipped

\* C35: in a plan run started with --info, the additional context is in the
\* input of the agent the run invokes first, whatever stage the run resumes
\* from, and in the input of no later agent of the run.
C35_InfoToFirstAgent ==
    (plan.pc # "off" /\ plan.info) =>
        /\ plan.ran >= 1 => 1 \in plan.informed
        /\ 2 \notin plan.informed

\* The id of the latest agent of the checkpoint with the role.
LatestOfRole(role) == <<calc.step, role, calc.fixers>>

\* C34: in run_human_approval_checkpoint every non-approving result of the
\* prompt is followed by exactly one human-feedback-fixer, chained after the
\* tip of that moment; a fixer that ends non-Completed makes the checkpoint
\* return (false, that fixer) and the flow fail; a showcase regeneration that
\* fails is not fatal: the human is prompted again, with the tip still at the
\* fixer.
C34_OneFixerPerFeedback ==
    calc.pc \in {"prompt", "fixer", "regenerator", "returned"} =>
    /\ calc.fixers = IF calc.pc = "fixer" THEN calc.responses - 1 ELSE calc.responses
    /\ AgentCount(flow, calc.step, "human-feedback-fixer") = calc.fixers
    /\ calc.fixers >= 1 =>
          calc.fix_after \in
              {<<calc.step, TipRole(calc.step), 1>>} \cup
              (IF calc.fixers >= 2
               THEN {<<calc.step, "human-feedback-fixer", calc.fixers - 1>>,
                     <<calc.step, "showcase-regenerator", calc.fixers - 1>>}
               ELSE {})
    /\ ~calc.fix_ok =>
          /\ calc.pc = "returned"
          /\ calc.result = <<FALSE, LatestOfRole("human-feedback-fixer")>>
          /\ flow.status = "failed"
    /\ (calc.fix_ok /\ calc.fixers >= 1 /\ calc.pc \in {"prompt", "regenerator"}) =>
          /\ flow.status = "running"
          /\ calc.current_agent_id =
                IF calc.pc = "prompt" /\ calc.regenerate_showcase /\ calc.showcase_ok
                THEN LatestOfRole("showcase-regenerator")
                ELSE LatestOfRole("human-feedback-fixer")

\* The chain tip at the fixer's start is the tip the fixer is chained after.
C34_ChainedAfterTip ==
    calc.pc = "fixer" => calc'.fix_after = calc.current_agent_id

C34_FeedbackFixerProtocol == [](C34_OneFixerPerFeedback) /\ [][C34_ChainedAfterTip]_vars

\* The human is prompted again after the fixer completed and the showcase
\* regeneration failed; the tip is the fixer.
C34_Witness ==
    /\ calc.pc = "prompt"
    /\ calc.fixers = 1 /\ calc.fix_ok
    /\ calc.regenerate_showcase /\ ~calc.showcase_ok
    /\ calc.current_agent_id = <<calc.step, "human-feedback-fixer", 1>>

\* The positions of the unresolved and of the resolved markers of a draft, and
\* how many of each carry the text.
UnresolvedAt(content) ==
    {i \in 1..(Len(content) - 1) : content[i] = "[" /\ content[i + 1] = "F"}
ResolvedAt(content) ==
    {i \in 1..(Len(content) - 1) : content[i] = "[" /\ content[i + 1] = "FR"}
UnresolvedOf(content, text) ==
    Cardinality({i \in UnresolvedAt(content) : content[i + 2] = text[1]})
ResolvedOf(content, text) ==
    Cardinality({i \in ResolvedAt(content) : content[i + 5] = text[1]})
MarkerTexts == {<<"a">>, <<"b">>}

\* parse_inline_feedback returns the unresolved markers of the draft, one
\* entry each, and nothing for a resolved one.
C36_OnlyUnresolvedReturned ==
    (calc.pc \in {"prompt", "fixer", "regenerator", "returned"} /\ calc.draft.exists) =>
        LET inline_feedback == parse_inline_feedback(calc.draft.content)
        IN /\ Len(inline_feedback) = Cardinality(UnresolvedAt(calc.draft.content))
           /\ \A text \in MarkerTexts :
                 Cardinality({k \in 1..Len(inline_feedback) :
                                 inline_feedback[k][2] = text})
                     = UnresolvedOf(calc.draft.content, text)

\* One step of the checkpoint on a draft that is there before and after it.
C36_MarkerStep ==
    (calc.pc \in {"prompt", "fixer", "regenerator"} /\ calc.draft.exists /\ calc'.draft.exists) =>
        \A text \in MarkerTexts :
            LET resolved == UnresolvedOf(calc.draft.content, text)
                                - UnresolvedOf(calc'.draft.content, text)
                paired == \E k \in 1..Len(calc'.resolutions) :
                             calc'.resolutions[k][1] = text
            IN /\ ResolvedOf(calc'.draft.content, text)
                     >= ResolvedOf(calc.draft.content, text)
               /\ resolved > 0 =>
                     /\ calc.pc = "fixer" /\ paired
                     /\ ResolvedOf(calc'.draft.content, text)
                           = ResolvedOf(calc.draft.content, text) + resolved
               /\ (calc.pc = "fixer" /\ ~paired) =>
                     /\ resolved = 0
                     /\ ResolvedOf(calc'.draft.content, text)
                           = ResolvedOf(calc.draft.content, text)

\* The draft goes away only at finalization, which writes the final spec from
\* clean_feedback_markers of the draft: no marker is left in it.
C36_Finalization ==
    (calc.pc \in {"prompt", "fixer", "regenerator"} /\ calc.draft.exists /\ ~calc'.draft.exists) =>
        /\ calc'.finalized /\ ~calc.finalized
        /\ calc'.final_spec = clean_feedback_markers(calc.draft.content)
        /\ UnresolvedAt(calc'.final_spec) = {} /\ ResolvedAt(calc'.final_spec) = {}

\* C36: in the human checkpoint loop a marker of the draft turns from
\* unresolved to resolved only when the fixer's report has a
\* FEEDBACK/RESOLUTION pair with its text; markers without such a pair stay as
\* they are; a resolved marker never turns unresolved again and
\* parse_inline_feedback never returns it; markers are removed only at
\* finalization, when the final spec is clean_feedback_markers of the draft.
C36_MarkerLifecycle ==
    /\ [](C36_OnlyUnresolvedReturned)
    /\ [][C36_MarkerStep /\ C36_Finalization]_vars

\* A later prompt of the checkpoint: the fixer's report resolved the marker
\* "b" and had no pair for the marker "a", which is still unresolved.
C36_Witness ==
    /\ calc.pc = "prompt" /\ calc.fixers >= 1 /\ calc.draft.exists
    /\ calc.response.inline_feedback # <<>>
    /\ calc.resolutions = <<<<<<"b">>, <<"c">>>>>>
    /\ ResolvedOf(calc.draft.content, <<"b">>) = 1
    /\ UnresolvedOf(calc.draft.content, <<"b">>) = 0
    /\ UnresolvedOf(calc.draft.content, <<"a">>) = 1
    /\ parse_inline_feedback(calc.draft.content) = <<<<"Document start", <<"a">>>>>>

\* The checkpoint returns only from the prompt on the answer "y", with true,
\* or from a human-feedback-fixer that ended non-Completed, with false.
C39_ReturnsOnlyTwoWays ==
    (calc.pc \in {"prompt", "fixer", "regenerator"} /\ calc'.pc = "returned") =>
        \/ /\ calc.pc = "prompt" /\ calc.draft.exists
           /\ calc'.response.approved /\ calc'.result = <<TRUE, calc.current_agent_id>>
        \/ /\ calc.pc = "fixer" /\ ~calc'.fix_ok
           /\ calc'.result[1] = FALSE

\* The answer "d" on a draft without an unresolved marker: the human is
\* prompted again, no agent is invoked and the chain tip stays.
C39_EmptyDraftReprompts ==
    (calc.pc = "prompt" /\ calc'.empties # calc.empties) =>
        /\ parse_inline_feedback(calc.draft.content) = <<>>
        /\ calc'.pc = "prompt"
        /\ flow' = flow
        /\ calc'.current_agent_id = calc.current_agent_id
        /\ calc'.fixers = calc.fixers /\ calc'.responses = calc.responses

\* Inline feedback that reaches the fixer is never empty.
C39_InlineNeverEmpty ==
    (calc.pc \in {"prompt", "fixer", "regenerator", "returned"}
        /\ calc.response.returned_draft_path) =>
        calc.response.inline_feedback # <<>>

\* C39: run_human_approval_checkpoint has no attempt budget: it ends only when
\* the human answers "y" (returning true) or when a human-feedback-fixer ends
\* non-Completed (returning false), so it ends if the human approves in the
\* end; the answer "d" on a draft with no unresolved inline marker prompts the
\* human again without invoking an agent and without moving the chain tip.
C39_EndsOnlyByApprovalOrFailure ==
    /\ [](C39_InlineNeverEmpty)
    /\ [][C39_ReturnsOnlyTwoWays /\ C39_EmptyDraftReprompts]_vars
    /\ ((calc.pc = "prompt" /\ calc.draft.exists) ~> (calc.pc = "returned"))

\* The human answered "d" on a draft without unresolved markers and is at the
\* prompt again: no fixer ran and the tip is the agent the checkpoint began on.
C39_Witness ==
    /\ calc.pc = "prompt" /\ calc.empties = 1
    /\ calc.draft.exists /\ UnresolvedAt(calc.draft.content) = {}
    /\ calc.fixers = 0 /\ calc.responses = 0
    /\ calc.current_agent_id = <<calc.step, TipRole(calc.step), 1>>
    /\ AgentCount(flow, calc.step, "human-feedback-fixer") = 0

\* C40: when the draft file is missing at a human checkpoint,
\* prompt_human_review returns (false, "Draft file not found", None, None),
\* which the checkpoint takes for direct feedback: it invokes a
\* human-feedback-fixer with that text and prompts again, so while the draft
\* stays missing and the fixers complete the checkpoint neither fails the flow
\* nor approves.
C40_MissingDraftLoops ==
    (calc.pc \in {"prompt", "fixer", "regenerator", "returned"}
        /\ ~calc.draft.exists /\ ~calc.finalized) =>
    /\ calc.responses >= 1 =>
          /\ calc.response.approved = FALSE
          /\ calc.response.direct_feedback = "Draft file not found"
          /\ calc.response.inline_feedback = <<>>
          /\ calc.response.returned_draft_path = FALSE
    /\ calc.fixers = IF calc.pc = "fixer" THEN calc.responses - 1 ELSE calc.responses
    /\ AgentCount(flow, calc.step, "human-feedback-fixer") = calc.fixers
    /\ calc.pc = "returned" => (~calc.fix_ok /\ calc.result[1] = FALSE)
    /\ calc.fix_ok =>
          /\ calc.pc # "returned"
          /\ flow.status = "running"
          /\ calc.step \notin flow.completedSteps

\* Two fixers have completed on the missing draft and the human checkpoint is
\* at its prompt again.
C40_Witness ==
    /\ calc.pc = "prompt" /\ ~calc.draft.exists /\ ~calc.finalized
    /\ calc.fixers = 2 /\ calc.fix_ok
    /\ calc.response.direct_feedback = "Draft file not found"
    /\ flow.status = "running"

\* The role of the agent invoked last in the call, "none" before the first.
LastRole(l) == IF l.invoked = 0 THEN "none" ELSE l.last_final[2]

\* One invocation of an agent by run_review_loop: what was invoked before it.
C38_InvokedInOrder ==
    (loop.pc # "off" /\ loop'.pc # "off" /\ loop'.invoked = loop.invoked + 1) =>
        LET before == LastRole(loop)
            role == LastRole(loop')
        IN /\ role \in {"reviewer", "review-fixer", "validation-fixer"}
           /\ loop'.reviewers = loop.reviewers + (IF role = "reviewer" THEN 1 ELSE 0)
           /\ loop'.fixers = loop.fixers + (IF role = "review-fixer" THEN 1 ELSE 0)
           /\ role = "reviewer" =>
                 /\ before \in {"none", "review-fixer", "validation-fixer"}
                 /\ before # "none" =>
                       /\ Len(loop.iter) >= 2
                       /\ loop.iter[2].kind = "review-fixer" /\ loop.iter[2].ok
           /\ role = "review-fixer" =>
                 /\ before = "reviewer"
                 /\ Len(loop.iter) = 1 /\ loop.iter[1].kind = "reviewer"
                 /\ ~check_review_approved(loop.iter[1].report, approval_marker)
           /\ role = "validation-fixer" =>
                 /\ before \in {"review-fixer", "validation-fixer"}
                 /\ Len(loop.iter) >= 3
                 /\ loop.iter[1].kind = "reviewer"
                 /\ loop.iter[2].kind = "review-fixer" /\ loop.iter[2].ok
                 /\ \A i \in 3..Len(loop.iter) :
                       loop.iter[i].kind \in {"validation", "validation-fixer"}

\* The review-fixers never outnumber the reviewers, and the reviewers are at
\* most one ahead.
C38_FixersFollowReviewers ==
    loop.pc # "off" =>
        /\ loop.fixers <= loop.reviewers
        /\ loop.reviewers <= loop.fixers + 1
        /\ loop.invoked > 0 => loop.reviewers >= 1

\* C38: in every execution of run_review_loop the invocations of the reviewer
\* and of the review-fixer alternate strictly, beginning with a reviewer; a
\* review-fixer is invoked only right after a reviewer that did not approve;
\* validation-fixers are invoked only between a Completed review-fixer and the
\* next reviewer; and at every point there are at most as many review-fixer
\* invocations as reviewer invocations.
C38_ProtocolOrder ==
    [](C38_FixersFollowReviewers) /\ [][C38_InvokedInOrder]_vars

\* The second reviewer of a call has run, after a review-fixer and a
\* validation-fixer, and its review-fixer is next.
C38_Witness ==
    /\ loop.pc = "review_fixer"
    /\ loop.reviewers = 2 /\ loop.fixers = 1
    /\ AgentCount(flow, LoopStep, "validation-fixer") >= 1
    /\ loop.prev_final[2] = "validation-fixer"

\* The lines that end a block once an item has begun: a blank line, a line
\* starting with a markdown header of any number of "#", a labelled header.
Terminator(kind) == kind \in {"blank", "header", "h1", "label", "sugg"}

\* The line of the first item after the first marker, and the first
\* terminator after it; 0 and Len + 1 when there is none.
FirstItem(lines) ==
    LET marker_pos == MarkerLine(lines, "sugg")
        found == {i \in (marker_pos + 1)..Len(lines) : lines[i] = "item"}
    IN IF marker_pos = 0 \/ found = {} THEN 0 ELSE Least(found)
BlockEnd(lines) ==
    LET ends == {i \in (FirstItem(lines) + 1)..Len(lines) : Terminator(lines[i])}
    IN IF ends = {} THEN Len(lines) + 1 ELSE Least(ends)

\* C37: _parse_marker_block reads only the block after the first marker and
\* ends it at the first terminator that follows an item: a blank line, a line
\* starting with a markdown section header of any number of "#", or a labelled
\* header line.  No numbered item after the terminator is returned, a line
\* that starts a numbered item is never a terminator, and every other
\* non-blank line of the block is the continuation of the item before it.
C37_BlockEndsAtTerminator ==
    calc.pc = "block_parsed" =>
        LET lines == calc.content
            first == FirstItem(lines)
            end == BlockEnd(lines)
            starts == {i \in 1..Len(lines) : i >= first /\ i < end /\ lines[i] = "item"}
        IN IF first = 0 THEN calc.items = <<>>
           ELSE /\ Len(calc.items) = Cardinality(starts)
                /\ \A k \in 1..Len(calc.items) :
                      LET item == calc.items[k]
                      IN /\ item[1] \in starts
                         /\ \A j \in 1..Len(item) :
                               /\ item[j] = item[1] + j - 1
                               /\ item[j] < end
                               /\ j > 1 => lines[item[j]] # "item"
                         /\ item[Len(item)] + 1 \in starts \cup {end}
                         /\ k > 1 => calc.items[k - 1][1] < item[1]

====
